---------------------------- MODULE Spec2Model ----------------------------
(***************************************************************************)
(* Single-producer/single-consumer queues of util/spscq.h: the Lamport     *)
(* queue (plain, local and batched modes), the FastForward queue and the   *)
(* Improved FastForward queue.                                             *)
(*                                                                         *)
(* Every ACCESS_ONCE load or store of a word shared by the two threads is  *)
(* one step of the thread that performs it; the steps of the two threads   *)
(* interleave freely and take effect in program order (the source's        *)
(* compiler_barrier() on a strongly-ordered target).  Accesses to a        *)
(* thread's own fields are folded into the next shared access.             *)
(***************************************************************************)
EXTENDS Integers, Sequences, FiniteSets, TLC

VARIABLES
    blq,        \* struct Blq: the Lamport queue control block and its slots
    ffq,        \* struct Iffq: the FastForward queue control block and slots
    prod,       \* the producer thread: position and locals of its operation
    cons,       \* the consumer thread: position and locals of its operation
    accepted,   \* history: the values the write operation accepted, in order
    received,   \* history: the values the read operation delivered, in order
    live,       \* history: slots the producer stored to, not yet released
    held,       \* history: slots the consumer loaded and has not yet released
    harness     \* the test driver of the sequential scenarios

vars == <<blq, ffq, prod, cons, accepted, received, live, held, harness>>

(***************************************************************************)
(* Bounds of the model.                                                    *)
(***************************************************************************)
\* width in bits of the model's unsigned int (the source's is 32)
UIntBits == 6
\* only the first ZeroWindow accepted values may be the value 0
ZeroWindow == 2
BlqZeroWindow == 0
\* the producer stops after this many accepted values (per variant)
LqMaxWrites == 10
LlqMaxWrites == 18
BlqMaxWrites == 17
\* plain Lamport queue: qlen ranges over 2^1 .. 2^LqMaxLog
LqMaxLog == 2
\* local Lamport queue: qlen ranges over 2^1 .. 2^LlqMaxLog
LlqMaxLog == 4
\* batched Lamport queue: qlen ranges over 2^1 .. 2^BlqMaxLog
BlqMaxLog == 4
\* the reserve calls ask for 0 .. MaxNeeded slots, or for qlen
MaxNeeded == 1
\* FastForward queues: entries ranges over 2^1 .. 2^FfqMaxLog and
\* line_size over sizeof(uintptr_t) * 2^0 .. 2^FfqMaxLineLog
FfqMaxLog == 3
FfqMaxLineLog == 1
FfqMaxWrites == 10
IffqMaxWrites == 12
BiffqMaxWrites == 7
\* batch/plain comparison: qlen ranges over 2^1 .. 2^EquivMaxLog, the
\* sequences written have at most EquivMaxLen values drawn from
\* 0 .. EquivMaxValue
EquivMaxLog == 3
EquivMaxLen == 3
EquivMaxValue == 2
\* the init calls: qlen ranges over -InitMaxNeg .. InitMaxQLen, entries
\* over 0 .. InitMaxEntries (each with 100 and 1024 besides), line_size
\* over 0 .. InitMaxLine; the memory handed to them holds values of
\* 0 .. InitMaxGarbage
InitMaxNeg == 2
InitMaxQLen == 17
InitMaxEntries == 17
InitMaxLine == 33
InitMaxGarbage == 2

(***************************************************************************)
(* Machine arithmetic.                                                     *)
(***************************************************************************)
RECURSIVE Pow2(_)
Pow2(n) == IF n = 0 THEN 1 ELSE 2 * Pow2(n - 1)

UIntMod == Pow2(UIntBits)

\* a word whose size is not a multiple of any ring size
U_odd(x) == x % (UIntMod - 1)

\* unsigned wrap-around of an integer result
U(x) == x % UIntMod

\* x & y; a negative operand is in two's complement (-1 is all ones)
RECURSIVE BitAnd(_, _)
BitAnd(x, y) ==
    IF x = 0 \/ y = 0 THEN 0
    ELSE IF x = -1 THEN y
    ELSE IF y = -1 THEN x
    ELSE (x % 2) * (y % 2) + 2 * BitAnd(x \div 2, y \div 2)

\* ~x on an unsigned int
BitNot(x) == UIntMod - 1 - x

SPSCQ_CACHELINE_SIZE == 64
SIZEOF_UINTPTR == 8
IFFQ_PROD_CACHE_ENTRIES == 256
EINVAL == 22
ENOBUFS == 105

(***************************************************************************)
(* Histories.                                                              *)
(***************************************************************************)
IsPrefix(s, t) ==
    /\ Len(s) <= Len(t)
    /\ \A i \in 1..Len(s) : s[i] = t[i]

NonZero(s) == SelectSeq(s, LAMBDA v : v # 0)

Zeros(s) == Len(s) - Len(NonZero(s))

\* The producer's payloads: a fresh tag, larger than every value sent
\* before and than the garbage value of iffq_init, or the value 0.
Payloads(maxWrites, zeroWindow) ==
    IF Len(accepted) >= maxWrites THEN {}
    ELSE {Len(accepted) + 2} \cup (IF Len(accepted) < zeroWindow THEN {0} ELSE {})

(***************************************************************************)
(* Thread records.                                                         *)
(***************************************************************************)
\* ret: the value the last call returned, <<v>>, or <<>>;
\* left: in the batch protocols, how many more local calls the last
\* reserve call allows; staged: local writes not yet published
\* needed: the argument of the last reserve call; seen (history): how many
\* slots were live when the operation last tested for space;
\* i: the loop index of iffq_insert_publish; pending and occupied
\* (history): how many values were written and not yet extracted, and how
\* many slots were not 0, when iffq_insert last tested for space
ProdIdle ==
    [pc |-> "idle", m |-> 0, write |-> 0, next |-> 0, ret |-> <<>>,
     left |-> 0, staged |-> 0, needed |-> 0, seen |-> 0, i |-> 0,
     pending |-> 0, occupied |-> 0]

\* values written to the ring (published, for the Lamport queues) and not
\* yet returned to the consumer
PublishedUnread == Len(accepted) - prod.staged - Len(received)

\* s: the bound iffq_clear sweeps up to; unread (history): whether some
\* value was written and not yet returned when the read operation last
\* sampled the producer's progress
ConsIdle ==
    [pc |-> "idle", m |-> 0, read |-> 0, ret |-> <<>>, left |-> 0, s |-> 0,
     unread |-> FALSE]

\* the consumer's record as its operation samples the producer's progress
ConsSample == [ConsIdle EXCEPT !.unread = PublishedUnread > 0]

ProdReturn(r) == [ProdIdle EXCEPT !.ret = <<r>>, !.seen = Cardinality(live)]

ConsReturn(r) ==
    [ConsIdle EXCEPT !.ret = <<r>>,
                     !.unread = IF cons.pc = "idle" THEN PublishedUnread > 0
                                ELSE cons.unread]

(***************************************************************************)
(* struct Blq and blq_init.                                                *)
(***************************************************************************)
is_power_of_two(x) == (x = 0) \/ (BitAnd(x, x - 1) = 0)

\* A Blq whose memory (control block and qlen slots) is all zero.
BlqZeroed(qlen) ==
    [write_priv |-> 0, read_shadow |-> 0, write |-> 0,
     read_priv |-> 0, write_shadow |-> 0, read |-> 0,
     qlen |-> 0, qmask |-> 0,
     q |-> [i \in 0..(qlen - 1) |-> 0]]

\* blq_init that stores qlen and qmask before it validates qlen
blq_init_storefirst(b, qlen) ==
    [ret |-> IF qlen < 2 \/ ~is_power_of_two(qlen) THEN -1 ELSE 0,
     blq |-> [b EXCEPT !.qlen = qlen, !.qmask = qlen - 1]]

\* blq_init without its lower bound on qlen
blq_init_nomin(b, qlen) ==
    IF ~is_power_of_two(qlen)
    THEN [ret |-> -1, blq |-> b]
    ELSE [ret |-> 0, blq |-> [b EXCEPT !.qlen = qlen, !.qmask = qlen - 1]]

\* lines 112-124
blq_init(b, qlen) ==
    IF qlen < 2 \/ ~is_power_of_two(qlen)
    THEN [ret |-> -1, blq |-> b]
    ELSE [ret |-> 0, blq |-> [b EXCEPT !.qlen = qlen, !.qmask = qlen - 1]]

\* No slot remapping by default.
SMAP(x) == x

BlqNone == BlqZeroed(0)
FfqNone == [entry_mask |-> 0]
Harness(v) == [variant |-> v]

(***************************************************************************)
(* Plain Lamport queue: lq_write, lq_read.                                 *)
(***************************************************************************)
\* lq_write without its full test: the write goes ahead on a full ring
lq_write_begin_nofull(m) ==
    /\ prod.pc = "idle"
    /\ prod' = [ProdIdle EXCEPT !.pc = "lq_write_store", !.m = m,
                                !.write = blq.write,
                                !.next = BitAnd(blq.write + 1, blq.qmask)]
    /\ UNCHANGED <<blq, ffq, cons, accepted, received, live, held, harness>>

\* lq_write that stores the value into the slot before it tests for full
lq_write_begin_storefull(m) ==
    /\ prod.pc = "idle"
    /\ LET write == blq.write
           next  == BitAnd(write + 1, blq.qmask)
       IN /\ blq' = [blq EXCEPT !.q[SMAP(write)] = m]
          /\ IF next = blq.read
             THEN prod' = ProdReturn(-1)
             ELSE prod' = [ProdIdle EXCEPT !.pc = "lq_write_store", !.m = m,
                                           !.write = write, !.next = next,
                                           !.seen = Cardinality(live)]
    /\ UNCHANGED <<ffq, cons, accepted, received, live, held, harness>>

\* lines 129-134: load own write, compute next, load the shared read cursor
lq_write_begin(m) ==
    /\ prod.pc = "idle"
    /\ LET write == blq.write
           next  == BitAnd(write + 1, blq.qmask)
       IN IF next = blq.read
          THEN prod' = ProdReturn(-1)
          ELSE prod' = [ProdIdle EXCEPT !.pc = "lq_write_store", !.m = m,
                                        !.write = write, !.next = next,
                                        !.seen = Cardinality(live)]
    /\ UNCHANGED <<blq, ffq, cons, accepted, received, live, held, harness>>

\* lq_write that stores the advanced write cursor where the code stores
\* the value into the slot
lq_write_store_cursor ==
    /\ prod.pc = "lq_write_store"
    /\ blq' = [blq EXCEPT !.write = prod.next]
    /\ prod' = [prod EXCEPT !.pc = "lq_write_publish"]
    /\ live' = live \cup {SMAP(prod.write)}
    /\ UNCHANGED <<ffq, cons, accepted, received, held, harness>>

\* line 135: store the value into the slot
lq_write_store ==
    /\ prod.pc = "lq_write_store"
    /\ blq' = [blq EXCEPT !.q[SMAP(prod.write)] = prod.m]
    /\ prod' = [prod EXCEPT !.pc = "lq_write_publish"]
    /\ live' = live \cup {SMAP(prod.write)}
    /\ UNCHANGED <<ffq, cons, accepted, received, held, harness>>

\* lines 137-138: store the advanced write cursor, return 0
lq_write_publish ==
    /\ prod.pc = "lq_write_publish"
    /\ blq' = [blq EXCEPT !.write = prod.next]
    /\ prod' = [ProdIdle EXCEPT !.ret = <<0>>, !.seen = prod.seen]
    /\ accepted' = Append(accepted, prod.m)
    /\ UNCHANGED <<ffq, cons, received, live, held, harness>>

\* lines 144-149: load own read, load the shared write cursor
lq_read_begin ==
    /\ cons.pc = "idle"
    /\ LET read == blq.read
       IN IF read = blq.write
          THEN cons' = ConsReturn(0)
          ELSE cons' = [ConsSample EXCEPT !.pc = "lq_read_load",
                                          !.read = read]
    /\ UNCHANGED <<blq, ffq, prod, accepted, received, live, held, harness>>

\* line 151: load the slot
lq_read_load ==
    /\ cons.pc = "lq_read_load"
    /\ cons' = [cons EXCEPT !.pc = "lq_read_publish",
                            !.m = blq.q[SMAP(cons.read)]]
    /\ held' = held \cup {SMAP(cons.read)}
    /\ UNCHANGED <<blq, ffq, prod, accepted, received, live, harness>>

\* lines 152-153: store the advanced read cursor, return m
lq_read_publish ==
    /\ cons.pc = "lq_read_publish"
    /\ blq' = [blq EXCEPT !.read = BitAnd(cons.read + 1, blq.qmask)]
    /\ cons' = ConsReturn(cons.m)
    /\ received' = IF cons.m # 0 THEN Append(received, cons.m) ELSE received
    /\ live' = live \ held
    /\ held' = {}
    /\ UNCHANGED <<ffq, prod, accepted, harness>>

LqQLens == {Pow2(k) : k \in 1..LqMaxLog}

InitLQ ==
    /\ \E qlen \in LqQLens : blq = blq_init(BlqZeroed(qlen), qlen).blq
    /\ ffq = FfqNone
    /\ prod = ProdIdle
    /\ cons = ConsIdle
    /\ accepted = <<>>
    /\ received = <<>>
    /\ live = {}
    /\ held = {}
    /\ harness = Harness("lq")

NextLQ ==
    /\ harness.variant = "lq"
    /\ \/ \E m \in Payloads(LqMaxWrites, ZeroWindow) : lq_write_begin(m)
       \/ lq_write_store
       \/ lq_write_publish
       \/ lq_read_begin
       \/ lq_read_load
       \/ lq_read_publish

SpecLQ == InitLQ /\ [][NextLQ]_vars

(***************************************************************************)
(* Local (shadow-cursor) Lamport queue: llq_write, llq_read.               *)
(***************************************************************************)
\* slots per cache line: SPSCQ_CACHELINE_SIZE / sizeof(uintptr_t)
\* the line taken as a count of bytes, not of slots
LineSlots_bytes == SPSCQ_CACHELINE_SIZE

\* lines 102, 162, 198: one cache line of slots
LineSlots == SPSCQ_CACHELINE_SIZE \div SIZEOF_UINTPTR

\* llq_write without its second full test: after refreshing read_shadow
\* the write goes ahead whatever the refreshed value
llq_write_begin_notest(m) ==
    /\ prod.pc = "idle"
    /\ LET write == blq.write
           check == BitAnd(U(write + LineSlots), blq.qmask)
           shadow == IF check = blq.read_shadow THEN blq.read
                     ELSE blq.read_shadow
       IN /\ blq' = [blq EXCEPT !.read_shadow = shadow]
          /\ prod' = [ProdIdle EXCEPT !.pc = "llq_write_store", !.m = m,
                                      !.write = write]
    /\ UNCHANGED <<ffq, cons, accepted, received, live, held, harness>>

\* lines 159-168: load own write, compute check, refresh read_shadow from
\* the shared read cursor when check has caught up with it, test for full
llq_write_begin(m) ==
    /\ prod.pc = "idle"
    /\ LET write == blq.write
           check == BitAnd(U(write + LineSlots), blq.qmask)
           shadow == IF check = blq.read_shadow THEN blq.read
                     ELSE blq.read_shadow
       IN /\ blq' = [blq EXCEPT !.read_shadow = shadow]
          /\ IF check = shadow
             THEN prod' = ProdReturn(-1)
             ELSE prod' = [ProdIdle EXCEPT !.pc = "llq_write_store", !.m = m,
                                           !.write = write,
                                           !.seen = Cardinality(live)]
    /\ UNCHANGED <<ffq, cons, accepted, received, live, held, harness>>

\* line 169: store the value into the slot
llq_write_store ==
    /\ prod.pc = "llq_write_store"
    /\ blq' = [blq EXCEPT !.q[SMAP(prod.write)] = prod.m]
    /\ prod' = [prod EXCEPT !.pc = "llq_write_publish"]
    /\ live' = live \cup {SMAP(prod.write)}
    /\ UNCHANGED <<ffq, cons, accepted, received, held, harness>>

\* lines 171-172: store the advanced write cursor, return 0
llq_write_publish ==
    /\ prod.pc = "llq_write_publish"
    /\ blq' = [blq EXCEPT !.write = BitAnd(U(prod.write + 1), blq.qmask)]
    /\ prod' = [ProdIdle EXCEPT !.ret = <<0>>, !.seen = prod.seen]
    /\ accepted' = Append(accepted, prod.m)
    /\ UNCHANGED <<ffq, cons, received, live, held, harness>>

\* llq_read that loads the shared write cursor on every call
llq_read_begin_reload ==
    /\ cons.pc = "idle"
    /\ LET read == blq.read_priv
           shadow == blq.write
       IN /\ blq' = [blq EXCEPT !.write_shadow = shadow]
          /\ IF read = shadow
             THEN cons' = ConsReturn(0)
             ELSE cons' = [ConsSample EXCEPT !.pc = "llq_read_load",
                                           !.read = read]
    /\ UNCHANGED <<ffq, prod, accepted, received, live, held, harness>>

\* lines 178-185: load own read_priv, refresh write_shadow from the shared
\* write cursor when read_priv has caught up with it, test for empty
llq_read_begin ==
    /\ cons.pc = "idle"
    /\ LET read == blq.read_priv
           shadow == IF read = blq.write_shadow THEN blq.write
                     ELSE blq.write_shadow
       IN /\ blq' = [blq EXCEPT !.write_shadow = shadow]
          /\ IF read = shadow
             THEN cons' = ConsReturn(0)
             ELSE cons' = [ConsSample EXCEPT !.pc = "llq_read_load",
                                           !.read = read]
    /\ UNCHANGED <<ffq, prod, accepted, received, live, held, harness>>

\* line 187: load the slot
llq_read_load ==
    /\ cons.pc = "llq_read_load"
    /\ cons' = [cons EXCEPT !.pc = "llq_read_publish",
                            !.m = blq.q[SMAP(cons.read)]]
    /\ held' = held \cup {SMAP(cons.read)}
    /\ UNCHANGED <<blq, ffq, prod, accepted, received, live, harness>>

\* lines 188-189: store the advanced cursor to read_priv and to the shared
\* read cursor, return m
llq_read_publish ==
    /\ cons.pc = "llq_read_publish"
    /\ LET next == BitAnd(U(cons.read + 1), blq.qmask)
       IN blq' = [blq EXCEPT !.read = next, !.read_priv = next]
    /\ cons' = ConsReturn(cons.m)
    /\ received' = IF cons.m # 0 THEN Append(received, cons.m) ELSE received
    /\ live' = live \ held
    /\ held' = {}
    /\ UNCHANGED <<ffq, prod, accepted, harness>>

LlqQLens == {Pow2(k) : k \in 1..LlqMaxLog}

InitLLQ ==
    /\ \E qlen \in LlqQLens : blq = blq_init(BlqZeroed(qlen), qlen).blq
    /\ ffq = FfqNone
    /\ prod = ProdIdle
    /\ cons = ConsIdle
    /\ accepted = <<>>
    /\ received = <<>>
    /\ live = {}
    /\ held = {}
    /\ harness = Harness("llq")

NextLLQ ==
    /\ harness.variant = "llq"
    /\ \/ \E m \in Payloads(LlqMaxWrites, ZeroWindow) : llq_write_begin(m)
       \/ llq_write_store
       \/ llq_write_publish
       \/ llq_read_begin
       \/ llq_read_load
       \/ llq_read_publish

SpecLLQ == InitLLQ /\ [][NextLLQ]_vars

(***************************************************************************)
(* Two-phase batch API of the Lamport queue: blq_wspace, blq_write_local,  *)
(* blq_write_publish, blq_rspace, blq_read_local, blq_read_publish.  Each  *)
(* side repeats: reserve, at most the returned number of local calls,      *)
(* publish.                                                                *)
(***************************************************************************)
Needed == (0..MaxNeeded) \cup {blq.qlen}

\* the space computed without subtracting write_priv
blq_wspace_space_nowrite(b) ==
    BitAnd(U(b.read_shadow - LineSlots), b.qmask)

\* lines 195-198 and 205-207: the producer's space from read_shadow
blq_wspace_space(b) ==
    BitAnd(U(U(b.read_shadow - LineSlots) - b.write_priv), b.qmask)

\* lines 193-208: at most one load of the shared read cursor
blq_wspace(needed) ==
    /\ prod.pc = "idle"
    /\ LET refreshed == [blq EXCEPT !.read_shadow = blq.read]
           b == IF blq_wspace_space(blq) >= needed THEN blq ELSE refreshed
       IN /\ blq' = b
          /\ prod' = [ProdIdle EXCEPT !.pc = "blq_batch",
                                      !.ret = <<blq_wspace_space(b)>>,
                                      !.left = blq_wspace_space(b),
                                      !.needed = needed,
                                      !.seen = Cardinality(live)]
    /\ UNCHANGED <<ffq, cons, accepted, received, live, held, harness>>

\* blq_write_local that advances write_priv before it stores
blq_write_local_preinc(m) ==
    /\ prod.pc = "blq_batch"
    /\ prod.left > 0
    /\ LET slot == SMAP(BitAnd(U(blq.write_priv + 1), blq.qmask))
       IN /\ blq' = [blq EXCEPT !.q[slot] = m,
                                !.write_priv = U(blq.write_priv + 1)]
          /\ live' = live \cup {slot}
    /\ prod' = [prod EXCEPT !.left = @ - 1, !.staged = @ + 1, !.ret = <<>>,
                            !.needed = 0, !.seen = 0]
    /\ accepted' = Append(accepted, m)
    /\ UNCHANGED <<ffq, cons, received, held, harness>>

\* lines 211-216: store the value into the slot at write_priv, advance
\* write_priv
blq_write_local(m) ==
    /\ prod.pc = "blq_batch"
    /\ prod.left > 0
    /\ LET slot == SMAP(BitAnd(blq.write_priv, blq.qmask))
       IN /\ blq' = [blq EXCEPT !.q[slot] = m,
                                !.write_priv = U(blq.write_priv + 1)]
          /\ live' = live \cup {slot}
    /\ prod' = [prod EXCEPT !.left = @ - 1, !.staged = @ + 1, !.ret = <<>>,
                            !.needed = 0, !.seen = 0]
    /\ accepted' = Append(accepted, m)
    /\ UNCHANGED <<ffq, cons, received, held, harness>>

\* lines 218-227: store write_priv to the shared write cursor
blq_write_publish ==
    /\ prod.pc = "blq_batch"
    /\ blq' = [blq EXCEPT !.write = blq.write_priv]
    /\ prod' = ProdIdle
    /\ UNCHANGED <<ffq, cons, accepted, received, live, held, harness>>

\* the space computed from the producer's private cursor
blq_rspace_space_priv(b) == U(b.write_priv - b.read_priv)

\* lines 232 and 244: the consumer's space from write_shadow
blq_rspace_space(b) == U(b.write_shadow - b.read_priv)

\* lines 229-245: at most one load of the shared write cursor
blq_rspace(needed) ==
    /\ cons.pc = "idle"
    /\ LET refreshed == [blq EXCEPT !.write_shadow = blq.write]
           b == IF blq_rspace_space(blq) >= needed THEN blq ELSE refreshed
       IN /\ blq' = b
          /\ cons' = [ConsSample EXCEPT !.pc = "blq_batch",
                                        !.ret = <<blq_rspace_space(b)>>,
                                        !.left = blq_rspace_space(b)]
    /\ UNCHANGED <<ffq, prod, accepted, received, live, held, harness>>

\* lines 248-254: load the slot at read_priv, advance read_priv
blq_read_local ==
    /\ cons.pc = "blq_batch"
    /\ cons.left > 0
    /\ LET slot == SMAP(BitAnd(blq.read_priv, blq.qmask))
       IN /\ blq' = [blq EXCEPT !.read_priv = U(blq.read_priv + 1)]
          /\ cons' = [cons EXCEPT !.left = @ - 1, !.ret = <<blq.q[slot]>>]
          /\ received' = Append(received, blq.q[slot])
          /\ held' = held \cup {slot}
    /\ UNCHANGED <<ffq, prod, accepted, live, harness>>

\* blq_read_publish that stores the published cursor to the producer's
\* read_shadow as well
blq_read_publish_shadow ==
    /\ cons.pc = "blq_batch"
    /\ blq' = [blq EXCEPT !.read = blq.read_priv,
                          !.read_shadow = blq.read_priv]
    /\ cons' = ConsIdle
    /\ live' = live \ held
    /\ held' = {}
    /\ UNCHANGED <<ffq, prod, accepted, received, harness>>

\* lines 256-260: store read_priv to the shared read cursor
blq_read_publish ==
    /\ cons.pc = "blq_batch"
    /\ blq' = [blq EXCEPT !.read = blq.read_priv]
    /\ cons' = ConsIdle
    /\ live' = live \ held
    /\ held' = {}
    /\ UNCHANGED <<ffq, prod, accepted, received, harness>>

BlqQLens == {Pow2(k) : k \in 1..BlqMaxLog}

InitBLQ ==
    /\ \E qlen \in BlqQLens : blq = blq_init(BlqZeroed(qlen), qlen).blq
    /\ ffq = FfqNone
    /\ prod = ProdIdle
    /\ cons = ConsIdle
    /\ accepted = <<>>
    /\ received = <<>>
    /\ live = {}
    /\ held = {}
    /\ harness = Harness("blq")

NextBLQ ==
    /\ harness.variant = "blq"
    /\ \/ \E n \in Needed : blq_wspace(n)
       \/ \E m \in Payloads(BlqMaxWrites, BlqZeroWindow) : blq_write_local(m)
       \/ blq_write_publish
       \/ \E n \in Needed : blq_rspace(n)
       \/ blq_read_local
       \/ blq_read_publish

SpecBLQ == InitBLQ /\ [][NextBLQ]_vars

(***************************************************************************)
(* struct Iffq and iffq_init.                                              *)
(***************************************************************************)
\* An Iffq whose memory (control block and `entries` slots) is all zero.
\* prod_cache lists the entries stored to so far; the others are still 0.
IffqZeroed(entries) ==
    [prod_cache |-> [i \in {} |-> 0],
     entry_mask |-> 0, line_entries |-> 0, line_mask |-> 0,
     prod_write |-> 0, prod_check |-> 0, prod_cache_write |-> 0,
     cons_clear |-> 0, cons_read |-> 0,
     q |-> [i \in 0..(entries - 1) |-> 0]]

CacheGet(cache, i) == IF i \in DOMAIN cache THEN cache[i] ELSE 0

CachePut(cache, i, m) ==
    [j \in (DOMAIN cache) \cup {i} |-> IF j = i THEN m ELSE cache[j]]

\* lines 360-365
iffq_init_invalid(entries, line_size, improved) ==
    \/ ~is_power_of_two(entries)
    \/ ~is_power_of_two(line_size)
    \/ (improved /\ entries * SIZEOF_UINTPTR <= 2 * line_size)
    \/ line_size < SIZEOF_UINTPTR

\* lines 353-393
iffq_init(f, entries, line_size, improved) ==
    IF iffq_init_invalid(entries, line_size, improved)
    THEN [ret |-> -EINVAL, ffq |-> f]
    ELSE LET entries_per_line == line_size \div SIZEOF_UINTPTR
             garbage == [i \in DOMAIN f.q |->
                            IF improved /\ i < entries_per_line
                            THEN 1 ELSE f.q[i]]
         IN [ret |-> 0,
             ffq |-> [f EXCEPT !.line_entries = entries_per_line,
                               !.line_mask = BitNot(U(entries_per_line - 1)),
                               !.entry_mask = U(entries - 1),
                               !.cons_clear = 0,
                               !.cons_read = entries_per_line,
                               !.prod_write = entries_per_line,
                               !.prod_check = entries_per_line,
                               !.prod_cache_write = 0,
                               !.q = garbage]]

(***************************************************************************)
(* FastForward queue: ffq_write, ffq_read.                                 *)
(***************************************************************************)
\* ffq_write without its occupancy test
ffq_write_begin_notest(m) ==
    /\ prod.pc = "idle"
    /\ prod' = [ProdIdle EXCEPT !.pc = "ffq_write_store", !.m = m,
                                !.seen = Cardinality(live)]
    /\ UNCHANGED <<blq, ffq, cons, accepted, received, live, held, harness>>

\* lines 308-312: load the slot at prod_write
ffq_write_begin(m) ==
    /\ prod.pc = "idle"
    /\ IF ffq.q[SMAP(BitAnd(ffq.prod_write, ffq.entry_mask))] # 0
       THEN prod' = ProdReturn(-1)
       ELSE prod' = [ProdIdle EXCEPT !.pc = "ffq_write_store", !.m = m,
                                     !.seen = Cardinality(live)]
    /\ UNCHANGED <<blq, ffq, cons, accepted, received, live, held, harness>>

\* lines 313-316: store the value into the slot, advance prod_write
ffq_write_store ==
    /\ prod.pc = "ffq_write_store"
    /\ LET slot == SMAP(BitAnd(ffq.prod_write, ffq.entry_mask))
       IN /\ ffq' = [ffq EXCEPT !.q[slot] = prod.m,
                                !.prod_write = U(ffq.prod_write + 1)]
          /\ live' = live \cup {slot}
    /\ prod' = [ProdIdle EXCEPT !.ret = <<0>>, !.seen = prod.seen]
    /\ accepted' = Append(accepted, prod.m)
    /\ UNCHANGED <<blq, cons, received, held, harness>>

\* lines 322-325 and 330: load the slot at cons_read
ffq_read_begin ==
    /\ cons.pc = "idle"
    /\ LET m == ffq.q[SMAP(BitAnd(ffq.cons_read, ffq.entry_mask))]
       IN IF m # 0
          THEN cons' = [ConsSample EXCEPT !.pc = "ffq_read_clear", !.m = m]
          ELSE cons' = ConsReturn(0)
    /\ UNCHANGED <<blq, ffq, prod, accepted, received, live, held, harness>>

\* lines 326-330: reset the slot to 0, advance cons_read, return m
ffq_read_clear ==
    /\ cons.pc = "ffq_read_clear"
    /\ LET slot == SMAP(BitAnd(ffq.cons_read, ffq.entry_mask))
       IN /\ ffq' = [ffq EXCEPT !.q[slot] = 0,
                                !.cons_read = U(ffq.cons_read + 1)]
          /\ live' = live \ {slot}
    /\ cons' = ConsReturn(cons.m)
    /\ received' = Append(received, cons.m)
    /\ UNCHANGED <<blq, prod, accepted, held, harness>>

FfqEntries == {Pow2(k) : k \in 1..FfqMaxLog}

FfqLineSizes == {SIZEOF_UINTPTR * Pow2(k) : k \in 0..FfqMaxLineLog}

\* the queues iffq_init accepts, on zeroed memory
IffqInits(improved) ==
    {iffq_init(IffqZeroed(e), e, l, improved).ffq :
        <<e, l>> \in {c \in FfqEntries \X FfqLineSizes :
                         ~iffq_init_invalid(c[1], c[2], improved)}}

InitFFQ ==
    /\ ffq \in IffqInits(FALSE)
    /\ blq = BlqNone
    /\ prod = ProdIdle
    /\ cons = ConsIdle
    /\ accepted = <<>>
    /\ received = <<>>
    /\ live = {}
    /\ held = {}
    /\ harness = Harness("ffq")

FfqSteps(payloads) ==
    \/ \E m \in payloads : ffq_write_begin(m)
    \/ ffq_write_store
    \/ ffq_read_begin
    \/ ffq_read_clear

\* the producer sends non-zero payloads only
NextFFQ ==
    /\ harness.variant = "ffq"
    /\ FfqSteps(Payloads(FfqMaxWrites, 0))

SpecFFQ == InitFFQ /\ [][NextFFQ]_vars

\* the producer may send the value 0 as well
NextFFQ0 ==
    /\ harness.variant = "ffq"
    /\ FfqSteps(Payloads(FfqMaxWrites, ZeroWindow))

(***************************************************************************)
(* Improved FastForward queue: iffq_insert, iffq_extract, iffq_clear.      *)
(***************************************************************************)
\* iffq_insert that tests the first slot of the line it enters, not of the
\* line after it
iffq_insert_begin_noslack(m) ==
    /\ prod.pc = "idle"
    /\ IF ffq.prod_write = ffq.prod_check
       THEN IF ffq.q[SMAP(BitAnd(ffq.prod_check, ffq.entry_mask))] # 0
            THEN /\ prod' = ProdReturn(-ENOBUFS)
                 /\ ffq' = ffq
            ELSE /\ ffq' = [ffq EXCEPT
                               !.prod_check = U(@ + ffq.line_entries)]
                 /\ prod' = [ProdIdle EXCEPT !.pc = "iffq_insert_store",
                                !.m = m, !.seen = Cardinality(live)]
       ELSE /\ ffq' = ffq
            /\ prod' = [ProdIdle EXCEPT !.pc = "iffq_insert_store", !.m = m,
                                        !.seen = Cardinality(live)]
    /\ UNCHANGED <<blq, cons, accepted, received, live, held, harness>>

\* the slots of the ring that do not hold the sentinel 0
NonSentinel(f) == {i \in DOMAIN f.q : f.q[i] # 0}

\* the producer's record as iffq_insert tests for space
IffqTested ==
    [ProdIdle EXCEPT !.seen = Cardinality(live),
                     !.pending = PublishedUnread,
                     !.occupied = Cardinality(NonSentinel(ffq))]

\* lines 412-418: when prod_write has reached prod_check, load the first
\* slot of the line after the next one and advance prod_check if it is 0
iffq_insert_begin(m) ==
    /\ prod.pc = "idle"
    /\ IF ffq.prod_write = ffq.prod_check
       THEN IF ffq.q[SMAP(BitAnd(U(ffq.prod_check + ffq.line_entries),
                                 ffq.entry_mask))] # 0
            THEN /\ prod' = [IffqTested EXCEPT !.ret = <<-ENOBUFS>>]
                 /\ ffq' = ffq
            ELSE /\ ffq' = [ffq EXCEPT
                               !.prod_check = U(@ + ffq.line_entries)]
                 /\ prod' = [IffqTested EXCEPT !.pc = "iffq_insert_store",
                                               !.m = m]
       ELSE /\ ffq' = ffq
            /\ prod' = [IffqTested EXCEPT !.pc = "iffq_insert_store",
                                          !.m = m]
    /\ UNCHANGED <<blq, cons, accepted, received, live, held, harness>>

\* lines 419-421: store the value into the slot, advance prod_write
iffq_insert_store ==
    /\ prod.pc = "iffq_insert_store"
    /\ LET slot == SMAP(BitAnd(ffq.prod_write, ffq.entry_mask))
       IN /\ ffq' = [ffq EXCEPT !.q[slot] = prod.m,
                                !.prod_write = U(ffq.prod_write + 1)]
          /\ live' = live \cup {slot}
    /\ prod' = [ProdIdle EXCEPT !.ret = <<0>>, !.seen = prod.seen]
    /\ accepted' = Append(accepted, prod.m)
    /\ UNCHANGED <<blq, cons, received, held, harness>>

\* lines 469-477: load the slot at cons_read, advance cons_read if not 0
iffq_extract ==
    /\ cons.pc = "idle"
    /\ LET slot == SMAP(BitAnd(ffq.cons_read, ffq.entry_mask))
           m == ffq.q[slot]
       IN /\ ffq' = IF m # 0
                    THEN [ffq EXCEPT !.cons_read = U(ffq.cons_read + 1)]
                    ELSE ffq
          /\ cons' = ConsReturn(m)
          /\ received' = IF m # 0 THEN Append(received, m) ELSE received
          /\ held' = IF m # 0 THEN held \cup {slot} ELSE held
    /\ UNCHANGED <<blq, prod, accepted, live, harness>>

\* a bound of the sweep that does not stay one line behind cons_read
iffq_clear_bound_nolag(f) == BitAnd(f.cons_read, f.line_mask)

\* line 487: the bound of the sweep
iffq_clear_bound(f) ==
    BitAnd(U(f.cons_read - f.line_entries), f.line_mask)

\* an iteration of iffq_clear that resets the slot and leaves cons_clear
\* where it is
iffq_clear_iteration_stay(s) ==
    LET slot == SMAP(BitAnd(ffq.cons_clear, ffq.entry_mask))
    IN /\ ffq' = [ffq EXCEPT !.q[slot] = 0]
       /\ live' = live \ {slot}
       /\ held' = held \ {slot}
       /\ cons' = IF U(ffq.cons_clear + 1) = s
                  THEN ConsIdle
                  ELSE [ConsIdle EXCEPT !.pc = "iffq_clear", !.s = s]

\* lines 489-491, one iteration: reset the slot at cons_clear to 0 and
\* advance cons_clear; the loop ends when cons_clear reaches s
iffq_clear_iteration(s) ==
    LET slot == SMAP(BitAnd(ffq.cons_clear, ffq.entry_mask))
    IN /\ ffq' = [ffq EXCEPT !.q[slot] = 0,
                             !.cons_clear = U(ffq.cons_clear + 1)]
       /\ live' = live \ {slot}
       /\ held' = held \ {slot}
       /\ cons' = IF U(ffq.cons_clear + 1) = s
                  THEN ConsIdle
                  ELSE [ConsIdle EXCEPT !.pc = "iffq_clear", !.s = s]

\* lines 487-489: compute the bound, enter the loop
iffq_clear_begin ==
    /\ cons.pc = "idle"
    /\ LET s == iffq_clear_bound(ffq)
       IN IF ffq.cons_clear # s
          THEN iffq_clear_iteration(s)
          ELSE /\ cons' = ConsIdle
               /\ UNCHANGED <<ffq, live, held>>
    /\ UNCHANGED <<blq, prod, accepted, received, harness>>

\* lines 489-491: the next iteration of the loop
iffq_clear_loop ==
    /\ cons.pc = "iffq_clear"
    /\ iffq_clear_iteration(cons.s)
    /\ UNCHANGED <<blq, prod, accepted, received, harness>>

InitIFFQ ==
    /\ ffq \in IffqInits(TRUE)
    /\ blq = BlqNone
    /\ prod = ProdIdle
    /\ cons = ConsIdle
    /\ accepted = <<>>
    /\ received = <<>>
    /\ live = {}
    /\ held = {}
    /\ harness = Harness("iffq")

IffqConsumerSteps ==
    \/ iffq_extract
    \/ iffq_clear_begin
    \/ iffq_clear_loop

\* the producer sends non-zero payloads only
NextIFFQ ==
    /\ harness.variant = "iffq"
    /\ \/ \E m \in Payloads(IffqMaxWrites, 0) : iffq_insert_begin(m)
       \/ iffq_insert_store
       \/ IffqConsumerSteps

SpecIFFQ == InitIFFQ /\ [][NextIFFQ]_vars

(***************************************************************************)
(* Improved FastForward queue, batched producer: iffq_wspace,              *)
(* iffq_insert_local, iffq_insert_publish.  The producer repeats: reserve, *)
(* at most the returned number of iffq_insert_local calls, publish.        *)
(***************************************************************************)
IffqNeeded == (0..MaxNeeded) \cup {ffq.entry_mask + 1}

\* iffq_wspace that advances prod_check without looking at the slot
iffq_wspace_nolook(needed) ==
    /\ prod.pc = "idle"
    /\ LET space == U(ffq.prod_check - ffq.prod_write)
           next_check == U(ffq.prod_check + ffq.line_entries)
           advance == space < needed
           r == IF advance THEN U(next_check - ffq.prod_write) ELSE space
       IN /\ ffq' = IF advance THEN [ffq EXCEPT !.prod_check = next_check]
                    ELSE ffq
          /\ prod' = [ProdIdle EXCEPT !.pc = "iffq_batch", !.ret = <<r>>,
                                      !.left = r, !.needed = needed,
                                      !.seen = Cardinality(live)]
    /\ UNCHANGED <<blq, cons, accepted, received, live, held, harness>>

\* lines 424-441: at most one load of a slot, the first of the line after
\* the next one
iffq_wspace(needed) ==
    /\ prod.pc = "idle"
    /\ LET space == U(ffq.prod_check - ffq.prod_write)
           next_check == U(ffq.prod_check + ffq.line_entries)
           advance == /\ space < needed
                      /\ ffq.q[SMAP(BitAnd(next_check, ffq.entry_mask))] = 0
           r == IF advance THEN U(next_check - ffq.prod_write) ELSE space
       IN /\ ffq' = IF advance THEN [ffq EXCEPT !.prod_check = next_check]
                    ELSE ffq
          /\ prod' = [ProdIdle EXCEPT !.pc = "iffq_batch", !.ret = <<r>>,
                                      !.left = r, !.needed = needed,
                                      !.seen = Cardinality(live)]
    /\ UNCHANGED <<blq, cons, accepted, received, live, held, harness>>

\* line 281: the number of entries of prod_cache.  The staging scenario
\* scales it down with the ring (harness.cache), as the word size is.
ProdCacheEntries ==
    IF "cache" \in DOMAIN harness THEN harness.cache
    ELSE IFFQ_PROD_CACHE_ENTRIES

\* line 446 with prod_cache_write past the end of prod_cache: the store is
\* undefined.  Outcomes: no field of the queue changes, or (lines 280-286,
\* the fields laid out after prod_cache) the two halves of m land in
\* entry_mask and line_entries.
OutOfBounds(f, m) ==
    {[f EXCEPT !.prod_cache_write = U(@ + 1)],
     [f EXCEPT !.prod_cache_write = U(@ + 1),
               !.entry_mask = U(m),
               !.line_entries = U(m \div UIntMod)]}

\* lines 443-447: stage the value in prod_cache; after a store outside
\* prod_cache the producer is at "out_of_bounds"
iffq_insert_local(m) ==
    /\ prod.pc = "iffq_batch"
    /\ prod.left > 0
    /\ IF ffq.prod_cache_write < ProdCacheEntries
       THEN /\ ffq' = [ffq EXCEPT
                         !.prod_cache = CachePut(@, ffq.prod_cache_write, m),
                         !.prod_cache_write = U(@ + 1)]
            /\ prod' = [prod EXCEPT !.left = @ - 1, !.staged = @ + 1,
                                    !.ret = <<>>, !.needed = 0, !.seen = 0]
       ELSE /\ ffq' \in OutOfBounds(ffq, m)
            /\ prod' = [prod EXCEPT !.pc = "out_of_bounds"]
    /\ accepted' = Append(accepted, m)
    /\ UNCHANGED <<blq, cons, received, live, held, harness>>

\* iffq_insert_publish that flushes the staged values last to first
iffq_insert_publish_iteration_rev(i) ==
    LET slot == SMAP(BitAnd(ffq.prod_write, ffq.entry_mask))
        last == ~(i + 1 < ffq.prod_cache_write)
    IN /\ ffq' = [ffq EXCEPT
                     !.q[slot] = CacheGet(ffq.prod_cache,
                                          ffq.prod_cache_write - 1 - i),
                     !.prod_write = U(ffq.prod_write + 1),
                     !.prod_cache_write = IF last THEN 0 ELSE @]
       /\ live' = live \cup {slot}
       /\ prod' = IF last THEN ProdIdle
                  ELSE [ProdIdle EXCEPT !.pc = "iffq_insert_publish",
                                        !.i = i + 1,
                                        !.staged = prod.staged - 1]

\* lines 454-458, one iteration: store prod_cache[i] into the slot at
\* prod_write, advance i and prod_write; after the last one reset
\* prod_cache_write
iffq_insert_publish_iteration(i) ==
    LET slot == SMAP(BitAnd(ffq.prod_write, ffq.entry_mask))
        last == ~(i + 1 < ffq.prod_cache_write)
    IN /\ ffq' = [ffq EXCEPT !.q[slot] = CacheGet(ffq.prod_cache, i),
                             !.prod_write = U(ffq.prod_write + 1),
                             !.prod_cache_write = IF last THEN 0 ELSE @]
       /\ live' = live \cup {slot}
       /\ prod' = IF last THEN ProdIdle
                  ELSE [ProdIdle EXCEPT !.pc = "iffq_insert_publish",
                                        !.i = i + 1,
                                        !.staged = prod.staged - 1]

\* lines 449-459: enter the loop
iffq_insert_publish_begin ==
    /\ prod.pc = "iffq_batch"
    /\ IF 0 < ffq.prod_cache_write
       THEN iffq_insert_publish_iteration(0)
       ELSE /\ ffq' = [ffq EXCEPT !.prod_cache_write = 0]
            /\ prod' = ProdIdle
            /\ live' = live
    /\ UNCHANGED <<blq, cons, accepted, received, held, harness>>

\* lines 454-458: the next iteration of the loop
iffq_insert_publish_loop ==
    /\ prod.pc = "iffq_insert_publish"
    /\ iffq_insert_publish_iteration(prod.i)
    /\ UNCHANGED <<blq, cons, accepted, received, held, harness>>

InitBIFFQ ==
    /\ ffq \in IffqInits(TRUE)
    /\ blq = BlqNone
    /\ prod = ProdIdle
    /\ cons = ConsIdle
    /\ accepted = <<>>
    /\ received = <<>>
    /\ live = {}
    /\ held = {}
    /\ harness = Harness("biffq")

\* the producer stages non-zero payloads only
NextBIFFQ ==
    /\ harness.variant = "biffq"
    /\ \/ \E n \in IffqNeeded : iffq_wspace(n)
       \/ \E m \in Payloads(BiffqMaxWrites, 0) : iffq_insert_local(m)
       \/ iffq_insert_publish_begin
       \/ iffq_insert_publish_loop
       \/ IffqConsumerSteps

SpecBIFFQ == InitBIFFQ /\ [][NextBIFFQ]_vars

(***************************************************************************)
(* C1.  Plain Lamport queue, one producer and one consumer interleaved at  *)
(* single loads and stores.  As stated: the non-zero values returned by    *)
(* lq_read are a prefix of the values lq_write accepted.                   *)
(***************************************************************************)
C1_Original == IsPrefix(received, accepted)

\* C1 as amended: the non-zero values returned by lq_read are a prefix of
\* the non-zero values lq_write accepted (so, when no payload is 0, of all
\* accepted values): none lost, none duplicated, in FIFO order.
C1_Fifo == IsPrefix(received, NonZero(accepted))

C1_Witness ==
    /\ blq.qlen = 4
    /\ Len(received) >= 6
    /\ Zeros(accepted) = 0

(***************************************************************************)
(* C3.  Local Lamport mode, one producer calling llq_write and one         *)
(* consumer calling llq_read.  As stated: the non-zero values returned by  *)
(* llq_read are a prefix of the values llq_write accepted.                 *)
(***************************************************************************)
C3_Original == IsPrefix(received, accepted)

\* C3 as amended: the non-zero values returned by llq_read are a prefix of
\* the non-zero values llq_write accepted (of all accepted values when no
\* payload is 0), although each side decides from a stale shadow cursor.
C3_Fifo == IsPrefix(received, NonZero(accepted))

\* the ring has wrapped and the producer last decided from a stale shadow
C3_Witness ==
    /\ blq.qlen = 2 * LineSlots
    /\ Len(received) > blq.qlen
    /\ blq.read_shadow # blq.read
    /\ prod.pc = "llq_write_store"

(***************************************************************************)
(* C2.  Two-phase batch API, both sides following the reserve / local /    *)
(* publish protocol, in any interleaving: the values returned by           *)
(* blq_read_local are the values passed to blq_write_local, each once and  *)
(* in the same order, and blq_write_local never stores into a slot that    *)
(* holds a value the consumer has not yet released.                        *)
(***************************************************************************)
C2_BatchFifo ==
    /\ IsPrefix(received, accepted)
    /\ (prod.pc = "blq_batch" /\ prod.left > 0)
           => SMAP(BitAnd(blq.write_priv, blq.qmask)) \notin live

\* the ring has wrapped, values are staged and the consumer is mid-batch
C2_Witness ==
    /\ blq.write_priv > blq.qlen
    /\ Len(received) > LineSlots
    /\ prod.pc = "blq_batch" /\ prod.left > 0 /\ prod.staged > 0
    /\ cons.pc = "blq_batch" /\ held # {}

(***************************************************************************)
(* C8.  Atomic batch visibility: values staged by blq_write_local are not  *)
(* observable by the consumer before blq_write_publish (the shared write   *)
(* cursor, the count blq_rspace computes and the consumer's remaining      *)
(* reservation cover published values only), and the one store of          *)
(* blq_write_publish makes all staged values available at once (the        *)
(* shared write cursor then covers every value written).                   *)
(***************************************************************************)
C8_AtomicVisibility ==
    /\ U(blq.write - blq.read_priv) = PublishedUnread
    /\ blq_rspace_space(blq) <= PublishedUnread
    /\ cons.pc = "blq_batch" => cons.left <= PublishedUnread
    /\ prod.pc = "idle" => prod.staged = 0

\* the consumer was handed a whole batch by one blq_rspace call while the
\* producer has staged, unpublished values
C8_Witness ==
    /\ prod.pc = "blq_batch" /\ prod.staged >= 2
    /\ cons.pc = "blq_batch" /\ cons.ret = <<cons.left>> /\ cons.left >= 2
    /\ blq.write_shadow = blq.write

(***************************************************************************)
(* C10.  Full boundary of the local and batch Lamport writers.  As         *)
(* stated: llq_write reports full, and blq_wspace reports zero available   *)
(* slots, if and only if qlen - 1 items are written and not yet released   *)
(* by the consumer.                                                        *)
(***************************************************************************)
\* the producer has just been told whether there is space: llq_write has
\* returned -1 or passed its test, blq_wspace has returned its count
ToldFull ==
    \/ harness.variant = "llq" /\ prod.pc = "idle" /\ prod.ret = <<-1>>
    \/ harness.variant = "blq" /\ prod.pc = "blq_batch" /\ prod.ret = <<0>>

ToldSpace ==
    \/ harness.variant = "llq" /\ prod.pc = "llq_write_store"
    \/ harness.variant = "blq" /\ prod.pc = "blq_batch"
           /\ prod.ret \notin {<<0>>, <<>>}

C10_Original ==
    /\ ToldFull => prod.seen = blq.qlen - 1
    /\ ToldSpace => prod.seen # blq.qlen - 1

\* usable capacity of the local and batch modes: qlen less one cache line
LineCapacity(qlen) == IF qlen > 8 THEN qlen - 8 ELSE 0

\* C10 as amended: llq_write reports full, and blq_wspace(needed) with
\* needed >= 1 returns 0, if and only if qlen - 8 items (none when
\* qlen <= 8) are written and not yet released; blq_wspace(0) returns 0
\* whenever its cached space is 0, and never returns more than is free.
C10_LineBoundary ==
    /\ (ToldFull /\ (harness.variant = "blq" => prod.needed >= 1))
           => prod.seen = LineCapacity(blq.qlen)
    /\ ToldSpace => prod.seen < LineCapacity(blq.qlen)
    /\ Cardinality(live) <= LineCapacity(blq.qlen)

C10_Witness ==
    /\ ToldFull
    /\ blq.qlen = 16
    /\ prod.seen = 8
    /\ Len(received) > 0

InitLocal == InitLLQ \/ InitBLQ

NextLocal == NextLLQ \/ NextBLQ

SpecLocal == InitLocal /\ [][NextLocal]_vars

(***************************************************************************)
(* C4.  Basic FastForward queue, non-zero payloads, slots initially 0, one *)
(* producer calling ffq_write and one consumer calling ffq_read in any     *)
(* interleaving: the non-zero values returned by ffq_read are a prefix of  *)
(* the values ffq_write accepted.                                          *)
(***************************************************************************)
C4_Fifo == IsPrefix(received, accepted)

\* the ring of 4 slots has wrapped and is full again
C4_Witness ==
    /\ ffq.entry_mask = 3
    /\ Len(received) >= 5
    /\ Cardinality(live) = 4

(***************************************************************************)
(* C5.  Improved FastForward queue, per-item producer: after iffq_init in  *)
(* improved mode, one producer calling iffq_insert with non-zero payloads  *)
(* and one consumer calling iffq_extract and iffq_clear in any order and   *)
(* interleaving: the non-zero values returned by iffq_extract are a prefix *)
(* of the values iffq_insert accepted.                                     *)
(***************************************************************************)
C5_Fifo == IsPrefix(received, accepted)

\* the ring has wrapped while a sweep of iffq_clear is under way
C5_Witness ==
    /\ Len(received) > ffq.entry_mask + 1
    /\ cons.pc = "iffq_clear"
    /\ prod.pc = "iffq_insert_store"

(***************************************************************************)
(* C6.  Improved FastForward queue, batched producer following the         *)
(* iffq_wspace / iffq_insert_local / iffq_insert_publish protocol with     *)
(* non-zero payloads, consumer calling iffq_extract and iffq_clear, in any *)
(* interleaving: the values returned by iffq_extract are the staged        *)
(* values, each once and in staging order.                                 *)
(***************************************************************************)
C6_BatchFifo == IsPrefix(received, accepted)

\* a flush of several values is under way, its next store wraps to the
\* start of the ring, and the consumer is in the middle of a sweep
C6_Witness ==
    /\ ffq.prod_write >= ffq.entry_mask + 1
    /\ Len(received) >= 3
    /\ prod.pc = "iffq_insert_publish" /\ prod.i >= 1
    /\ cons.pc = "iffq_clear"

(***************************************************************************)
(* C9.  Full boundary of the plain writers: lq_write returns -1 if and     *)
(* only if qlen - 1 items are written and unread when it loads the read    *)
(* cursor; ffq_write returns -1 if and only if all `entries` slots hold    *)
(* unread items when it loads its target slot.  prod.seen is the number of *)
(* such items at that load.                                                *)
(***************************************************************************)
InitPlain == InitLQ \/ InitFFQ

NextPlain == NextLQ \/ NextFFQ0

SpecPlain == InitPlain /\ [][NextPlain]_vars

\* the slots of the plain writer's ring that can hold an item
PlainCapacity ==
    IF harness.variant = "lq" THEN blq.qlen - 1 ELSE ffq.entry_mask + 1

\* the writer has just returned -1
PlainFull == prod.pc = "idle" /\ prod.ret = <<-1>>

\* the writer has just passed its test and is about to store
PlainSpace == prod.pc \in {"lq_write_store", "ffq_write_store"}

C9_FullBoundary ==
    /\ PlainFull => prod.seen = PlainCapacity
    /\ PlainSpace => prod.seen # PlainCapacity

(***************************************************************************)
(* Batch/plain comparison: the same values are written to a fresh queue    *)
(* with lq_write, the consumer drains it, and then to an identically       *)
(* initialised queue with blq_write_local and one blq_write_publish.  The  *)
(* consumer uses the same read operations in both runs and may run while   *)
(* the producer writes.                                                    *)
(***************************************************************************)
EquivQLens == {Pow2(k) : k \in 1..EquivMaxLog}

\* the sequences of k values with k successful lq_write calls on a fresh
\* queue: k <= qlen - 1
EquivVals(qlen) ==
    UNION {[1..k -> 0..EquivMaxValue] :
              k \in 0..(IF qlen - 1 < EquivMaxLen THEN qlen - 1
                                                  ELSE EquivMaxLen)}

EquivFresh(qlen) == blq_init(BlqZeroed(qlen), qlen).blq

InitEquiv ==
    /\ \E qlen \in EquivQLens, reader \in {"lq", "blq"} :
       \E vals \in EquivVals(qlen) :
          /\ blq = EquivFresh(qlen)
          /\ harness = [variant |-> "equiv", phase |-> "plain",
                        vals |-> vals, reader |-> reader,
                        plain |-> [q |-> blq.q, write |-> 0,
                                   received |-> <<>>]]
    /\ ffq = FfqNone
    /\ prod = ProdIdle
    /\ cons = ConsIdle
    /\ accepted = <<>>
    /\ received = <<>>
    /\ live = {}
    /\ held = {}

\* every value has been written and published, and the consumer has
\* released all of them
EquivDrained ==
    /\ prod.pc = "idle"
    /\ cons.pc = "idle"
    /\ Len(accepted) = Len(harness.vals)
    /\ blq.read = blq.write

\* the next value of the sequence, if any
EquivNextVal ==
    IF Len(accepted) < Len(harness.vals)
    THEN {harness.vals[Len(accepted) + 1]}
    ELSE {}

\* the plain run: one lq_write call per value
EquivPlainWrite ==
    /\ harness.phase = "plain"
    /\ \/ \E m \in EquivNextVal : lq_write_begin(m)
       \/ lq_write_store
       \/ lq_write_publish

\* the plain run is over: keep what the consumer could see and what it
\* read, and start the batch run on an identically initialised queue
EquivRestart ==
    /\ harness.phase = "plain"
    /\ EquivDrained
    /\ harness' = [harness EXCEPT !.phase = "batch",
                                  !.plain = [q |-> blq.q,
                                             write |-> blq.write,
                                             received |-> received]]
    /\ blq' = EquivFresh(blq.qlen)
    /\ prod' = [ProdIdle EXCEPT !.pc = "blq_batch",
                                !.left = Len(harness.vals)]
    /\ cons' = ConsIdle
    /\ accepted' = <<>>
    /\ received' = <<>>
    /\ live' = {}
    /\ held' = {}
    /\ ffq' = ffq

\* the batch run: one blq_write_local call per value, then one
\* blq_write_publish
EquivBatchWrite ==
    /\ harness.phase = "batch"
    /\ \/ \E m \in EquivNextVal : blq_write_local(m)
       \/ prod.left = 0 /\ blq_write_publish

EquivRead ==
    \/ /\ harness.reader = "lq"
       /\ \/ lq_read_begin
          \/ lq_read_load
          \/ lq_read_publish
    \/ /\ harness.reader = "blq"
       /\ \/ \E n \in 0..1 : blq_rspace(n)
          \/ blq_read_local
          \/ blq_read_publish

NextEquiv ==
    /\ harness.variant = "equiv"
    /\ \/ EquivPlainWrite
       \/ EquivRestart
       \/ EquivBatchWrite
       \/ EquivRead

SpecEquiv == InitEquiv /\ [][NextEquiv]_vars

(***************************************************************************)
(* C7.  Batch/plain equivalence: for a sequence of k values that fits in   *)
(* the queue, k blq_write_local calls followed by one blq_write_publish    *)
(* give the consumer the same slots and the same shared write cursor, and  *)
(* the consumer reads the same sequence of values, as after k successful   *)
(* lq_write calls of the same values on an identically initialised queue.  *)
(***************************************************************************)
C7_Equivalence ==
    (harness.phase = "batch" /\ prod.pc = "idle") =>
        /\ blq.q = harness.plain.q
        /\ blq.write = harness.plain.write
        /\ IsPrefix(received, harness.plain.received)
        /\ EquivDrained => received = harness.plain.received

\* both runs are over, the sequence had the greatest length and held the
\* value 0 and other values, and the consumer read several values
C7_Witness ==
    /\ harness.phase = "batch"
    /\ EquivDrained
    /\ Len(harness.vals) = EquivMaxLen
    /\ Zeros(harness.vals) = 1
    /\ Len(received) >= 2
    /\ received = harness.plain.received

(***************************************************************************)
(* C11.  Empty boundary: a read operation reports empty (lq_read,          *)
(* llq_read, ffq_read, iffq_extract return 0; blq_rspace returns 0) if and *)
(* only if no written-and-unread item exists at the moment it samples the  *)
(* producer's progress.  cons.unread records whether such an item existed  *)
(* at that moment.                                                         *)
(***************************************************************************)
SpecFFQ0 == InitFFQ /\ [][NextFFQ0]_vars

\* the last read operation reported empty
ReadEmpty ==
    \/ cons.pc = "idle" /\ cons.ret = <<0>>
    \/ cons.pc = "blq_batch" /\ cons.ret = <<0>> /\ held = {}

\* the last read operation found an item: it is about to load or clear
\* the slot, has returned a value, or blq_rspace has returned a count
ReadFound ==
    \/ cons.pc \in {"lq_read_load", "lq_read_publish", "llq_read_load",
                    "llq_read_publish", "ffq_read_clear"}
    \/ cons.pc = "idle" /\ cons.ret \notin {<<>>, <<0>>}
    \/ cons.pc = "blq_batch" /\ cons.ret = <<cons.left>> /\ cons.left > 0
           /\ held = {}

C11_EmptyBoundary ==
    /\ ReadEmpty => ~cons.unread
    /\ ReadFound => cons.unread

(***************************************************************************)
(* C12.  Full boundary of the improved FastForward queue.  As stated:      *)
(* iffq_insert returns -ENOBUFS if and only if the number of written and   *)
(* unextracted items equals entries - 2 * line_entries.                    *)
(***************************************************************************)
\* usable capacity: the ring less the two reserved lines
IffqCapacity == ffq.entry_mask + 1 - 2 * ffq.line_entries

\* iffq_insert has just returned -ENOBUFS
IffqFull == prod.pc = "idle" /\ prod.ret = <<-ENOBUFS>>

\* iffq_insert has just gone past its test and is about to store
IffqSpace == prod.pc = "iffq_insert_store"

C12_Original ==
    /\ IffqFull => prod.pending = IffqCapacity
    /\ IffqSpace => prod.pending # IffqCapacity

\* C12 as amended: the written and unextracted items never exceed
\* entries - 2 * line_entries, so iffq_insert never succeeds with that
\* many pending; it returns -ENOBUFS only with at least
\* entries - line_entries slots not yet reset to 0 (written or seeded, and
\* not yet swept by iffq_clear), whatever number of items, from 0 up to
\* the capacity, is unextracted; while the consumer has done nothing the
\* first -ENOBUFS comes with exactly entries - 2 * line_entries pending.
C12_SlackBoundary ==
    /\ PublishedUnread <= IffqCapacity
    /\ IffqSpace => prod.pending < IffqCapacity
    /\ IffqFull =>
          /\ prod.pending <= IffqCapacity
          /\ prod.occupied >= ffq.entry_mask + 1 - ffq.line_entries
          /\ (ffq.cons_read = ffq.line_entries /\ ffq.cons_clear = 0)
                 => prod.pending = IffqCapacity

\* iffq_insert reports full after the ring has wrapped although the
\* consumer has extracted every item: the extracted slots are not yet
\* swept
C12_Witness ==
    /\ IffqFull
    /\ prod.pending = 0
    /\ Len(accepted) > ffq.entry_mask + 1

(***************************************************************************)
(* The init calls on memory of any content: blq_init(blq, qlen) and        *)
(* iffq_init(ffq, entries, line_size, improved), one call per behaviour.   *)
(* harness keeps the arguments, the memory before the call and the value   *)
(* returned.                                                               *)
(***************************************************************************)
InitQLens == ((-InitMaxNeg)..InitMaxQLen) \cup {100, 1024}

InitEntries == (0..InitMaxEntries) \cup {100, 1024}

InitLineSizes == 0..InitMaxLine

\* a Blq of `slots` slots whose producer-side words hold g, the others h
BlqMemory(slots, g, h) ==
    [write_priv |-> g, read_shadow |-> g, write |-> g,
     read_priv |-> h, write_shadow |-> h, read |-> h,
     qlen |-> h, qmask |-> g,
     q |-> [i \in 0..(slots - 1) |-> g]]

\* an Iffq of `entries` slots whose producer-side words hold g, the others h
IffqMemory(entries, g, h) ==
    [prod_cache |-> [i \in {} |-> 0],
     entry_mask |-> h, line_entries |-> h, line_mask |-> h,
     prod_write |-> g, prod_check |-> g, prod_cache_write |-> g,
     cons_clear |-> h, cons_read |-> h,
     q |-> [i \in 0..(entries - 1) |-> g]]

InitCalls ==
    [call : {"blq_init"}, qlen : InitQLens, entries : {0}, line_size : {0},
     improved : {FALSE}]
    \cup
    [call : {"iffq_init"}, qlen : {0}, entries : InitEntries,
     line_size : InitLineSizes, improved : BOOLEAN]

InitInit ==
    /\ \E c \in InitCalls, g \in 0..InitMaxGarbage, h \in 0..InitMaxGarbage :
          /\ blq = BlqMemory(IF c.qlen > 0 THEN c.qlen ELSE 0, g, h)
          /\ ffq = IffqMemory(c.entries, g, h)
          /\ harness = [variant |-> "init", state |-> "before", args |-> c,
                        ret |-> 0, before |-> [blq |-> blq, ffq |-> ffq]]
    /\ prod = ProdIdle
    /\ cons = ConsIdle
    /\ accepted = <<>>
    /\ received = <<>>
    /\ live = {}
    /\ held = {}

CallBlqInit ==
    /\ harness.state = "before"
    /\ harness.args.call = "blq_init"
    /\ LET r == blq_init(blq, harness.args.qlen)
       IN /\ blq' = r.blq
          /\ harness' = [harness EXCEPT !.state = "after", !.ret = r.ret]
    /\ UNCHANGED <<ffq, prod, cons, accepted, received, live, held>>

CallIffqInit ==
    /\ harness.state = "before"
    /\ harness.args.call = "iffq_init"
    /\ LET r == iffq_init(ffq, harness.args.entries, harness.args.line_size,
                          harness.args.improved)
       IN /\ ffq' = r.ffq
          /\ harness' = [harness EXCEPT !.state = "after", !.ret = r.ret]
    /\ UNCHANGED <<blq, prod, cons, accepted, received, live, held>>

NextInit ==
    /\ harness.variant = "init"
    /\ \/ CallBlqInit
       \/ CallIffqInit

SpecInit == InitInit /\ [][NextInit]_vars

\* x is 2^k for some k >= 0
IsPowerOfTwo(x) == \E k \in 0..30 : x = Pow2(k)

\* the call named c has returned
Returned(c) == harness.state = "after" /\ harness.args.call = c

(***************************************************************************)
(* C13.  blq_init validation: blq_init returns -1 for every qlen that is   *)
(* not a power of two or is below 2 (0, 1, 3, 5, 100 and negative values   *)
(* among them), and returns 0 for every power of two >= 2 (2, 4, 1024      *)
(* among them), and then has stored qlen and qmask = qlen - 1.             *)
(***************************************************************************)
C13_BlqInitValidation ==
    Returned("blq_init") =>
        LET qlen == harness.args.qlen
        IN IF qlen >= 2 /\ IsPowerOfTwo(qlen)
           THEN /\ harness.ret = 0
                /\ blq.qlen = qlen
                /\ blq.qmask = qlen - 1
           ELSE harness.ret = -1

\* blq_init has accepted qlen = 1024 on memory that held other values
C13_Witness ==
    /\ Returned("blq_init")
    /\ harness.args.qlen = 1024
    /\ harness.ret = 0
    /\ blq.qmask = 1023
    /\ harness.before.blq.qmask = InitMaxGarbage

(***************************************************************************)
(* C14.  iffq_init validation: in basic and in improved mode iffq_init     *)
(* returns failure whenever entries is not a power of two (0, 3, 5, 100    *)
(* among them), whenever line_size is not a power of two and whenever      *)
(* line_size < sizeof(slot); in improved mode also whenever                *)
(* entries * sizeof(slot) <= 2 * line_size; in every other case it         *)
(* returns 0.                                                              *)
(***************************************************************************)
C14_IffqInitValidation ==
    Returned("iffq_init") =>
        LET entries == harness.args.entries
            line_size == harness.args.line_size
            invalid ==
                \/ ~IsPowerOfTwo(entries)
                \/ ~IsPowerOfTwo(line_size)
                \/ line_size < SIZEOF_UINTPTR
                \/ /\ harness.args.improved
                   /\ entries * SIZEOF_UINTPTR <= 2 * line_size
        IN IF invalid THEN harness.ret # 0 ELSE harness.ret = 0

(***************************************************************************)
(* C15.  Init failure leaves no partial state: when blq_init or iffq_init  *)
(* returns a failure, every field of the control block and every slot has  *)
(* the value it had before the call.                                       *)
(***************************************************************************)
C15_NoPartialState ==
    (harness.variant = "init" /\ harness.state = "after" /\ harness.ret # 0)
        => /\ blq = harness.before.blq
           /\ ffq = harness.before.ffq

\* iffq_init has rejected, in improved mode, a ring of two lines on memory
\* that held non-zero values
C15_Witness ==
    /\ Returned("iffq_init")
    /\ harness.ret = -EINVAL
    /\ harness.args.improved
    /\ harness.args.entries = 4 /\ harness.args.line_size = 16
    /\ ffq.prod_write = InitMaxGarbage
    /\ ffq.cons_read = 1

(***************************************************************************)
(* C16.  Sentinel restriction: an attempt to enqueue the sentinel value 0  *)
(* through ffq_write or iffq_insert is never accepted: the call does not   *)
(* return success and does not advance prod_write, so no value the         *)
(* FastForward writers accepted is 0.                                      *)
(***************************************************************************)
\* the producer may send the value 0 as well
NextIFFQ0 ==
    /\ harness.variant = "iffq"
    /\ \/ \E m \in Payloads(IffqMaxWrites, ZeroWindow) : iffq_insert_begin(m)
       \/ iffq_insert_store
       \/ IffqConsumerSteps

InitSentinel == InitFFQ \/ InitIFFQ

NextSentinel == NextFFQ0 \/ NextIFFQ0

SpecSentinel == InitSentinel /\ [][NextSentinel]_vars

C16_SentinelRejected == Zeros(accepted) = 0

(***************************************************************************)
(* The single-item operations of all four families, any payload.           *)
(***************************************************************************)
InitItem == InitLQ \/ InitLLQ \/ InitFFQ \/ InitIFFQ

NextItem == NextLQ \/ NextLLQ \/ NextFFQ0 \/ NextIFFQ0

SpecItem == InitItem /\ [][NextItem]_vars

\* the slots and the cursors of both queues, the shadow copies left out,
\* and the values accepted and returned so far
Core ==
    <<[blq EXCEPT !.read_shadow = 0, !.write_shadow = 0], ffq,
      accepted, received>>

\* the step is the producer's / the consumer's: it changes that thread's
\* record or that thread's shadow copy
ProducerStep == prod' # prod \/ blq'.read_shadow # blq.read_shadow

ConsumerStep == cons' # cons \/ blq'.write_shadow # blq.write_shadow

\* the step returns full from lq_write, llq_write, ffq_write, iffq_insert
ReturnsFull ==
    /\ ProducerStep
    /\ prod'.pc = "idle"
    /\ prod'.ret \in {<<-1>>, <<-ENOBUFS>>}

\* the step returns 0 from lq_read, llq_read, ffq_read, iffq_extract
ReturnsZero ==
    /\ ConsumerStep
    /\ cons'.pc = "idle"
    /\ cons'.ret = <<0>>

(***************************************************************************)
(* C17.  Full/empty outcomes change nothing.  As stated: whenever          *)
(* lq_write, llq_write or ffq_write returns -1, or iffq_insert returns     *)
(* -ENOBUFS, or lq_read, llq_read, ffq_read or iffq_extract returns 0, the *)
(* slot array and the cursors of both sides are unchanged (at most the     *)
(* caller's shadow copy was refreshed) and no item has been consumed, for  *)
(* every sequence of values the write operation accepted.                  *)
(***************************************************************************)
C17_Original ==
    [][(ReturnsFull \/ ReturnsZero) => Core' = Core]_vars

\* C17 as amended: a full return, and a return of 0 by a read operation
\* that found the queue empty (in its first step), change nothing but the
\* caller's shadow copy; lq_read and llq_read also return 0, having
\* advanced the read cursor, when the slot they load holds a payload 0
\* that lq_write / llq_write accepted.
C17_OutcomesChangeNothing ==
    [][/\ ReturnsFull => Core' = Core
       /\ (ReturnsZero /\ cons.pc = "idle") => Core' = Core
       /\ (ReturnsZero /\ cons.pc # "idle") =>
              /\ cons.pc \in {"lq_read_publish", "llq_read_publish"}
              /\ cons.m = 0
              /\ Zeros(accepted) > 0
              /\ blq'.read # blq.read]_vars

\* lq_write has reported full, the consumer has then drained the queue
\* and lq_read has reported empty
C17_Witness ==
    /\ harness.variant = "lq"
    /\ prod.pc = "idle" /\ prod.ret = <<-1>>
    /\ cons.pc = "idle" /\ cons.ret = <<0>>
    /\ Zeros(accepted) = 0
    /\ Len(received) = Len(accepted)
    /\ blq.qlen = 4
    /\ Len(received) >= blq.qlen - 1


\* ---------------------------------------------------------------------
\* All operations of all variants, one queue per behaviour
\* ---------------------------------------------------------------------

\* the number of values the producer submits in SpecOps
OpsMaxWrites == 5

InitOps ==
    InitLQ \/ InitLLQ \/ InitBLQ \/ InitFFQ \/ InitIFFQ \/ InitBIFFQ

\* the steps of the producer's operations
ProdOps ==
    \/ /\ harness.variant = "lq"
       /\ \/ \E m \in Payloads(OpsMaxWrites, 0) : lq_write_begin(m)
          \/ lq_write_store
          \/ lq_write_publish
    \/ /\ harness.variant = "llq"
       /\ \/ \E m \in Payloads(OpsMaxWrites, 0) : llq_write_begin(m)
          \/ llq_write_store
          \/ llq_write_publish
    \/ /\ harness.variant = "blq"
       /\ \/ \E n \in Needed : blq_wspace(n)
          \/ \E m \in Payloads(OpsMaxWrites, 0) : blq_write_local(m)
          \/ blq_write_publish
    \/ /\ harness.variant = "ffq"
       /\ \/ \E m \in Payloads(OpsMaxWrites, 0) : ffq_write_begin(m)
          \/ ffq_write_store
    \/ /\ harness.variant = "iffq"
       /\ \/ \E m \in Payloads(OpsMaxWrites, 0) : iffq_insert_begin(m)
          \/ iffq_insert_store
    \/ /\ harness.variant = "biffq"
       /\ \/ \E n \in IffqNeeded : iffq_wspace(n)
          \/ \E m \in Payloads(OpsMaxWrites, 0) : iffq_insert_local(m)
          \/ iffq_insert_publish_begin
          \/ iffq_insert_publish_loop

\* the steps of the consumer's operations
ConsOps ==
    \/ /\ harness.variant = "lq"
       /\ \/ lq_read_begin
          \/ lq_read_load
          \/ lq_read_publish
    \/ /\ harness.variant = "llq"
       /\ \/ llq_read_begin
          \/ llq_read_load
          \/ llq_read_publish
    \/ /\ harness.variant = "blq"
       /\ \/ \E n \in Needed : blq_rspace(n)
          \/ blq_read_local
          \/ blq_read_publish
    \/ /\ harness.variant = "ffq"
       /\ \/ ffq_read_begin
          \/ ffq_read_clear
    \/ /\ harness.variant \in {"iffq", "biffq"}
       /\ IffqConsumerSteps

NextOps == ProdOps \/ ConsOps

SpecOps == InitOps /\ [][NextOps]_vars


\* ---------------------------------------------------------------------
\* C18
\* ---------------------------------------------------------------------

\* the number of steps the producer's current call has still to take:
\* lq_write and llq_write are test, store, publish; ffq_write and
\* iffq_insert are test, store; the loop of iffq_insert_publish
\* (lines 454-457) runs while i < prod_cache_write; all other producer
\* operations are one step
ProdRank ==
    CASE prod.pc \in {"lq_write_store", "llq_write_store"} -> 2
      [] prod.pc \in {"lq_write_publish", "llq_write_publish",
                      "ffq_write_store", "iffq_insert_store"} -> 1
      [] prod.pc = "iffq_insert_publish" -> ffq.prod_cache_write - prod.i
      [] OTHER -> 0

\* the number of steps the consumer's current call has still to take:
\* lq_read and llq_read are test, load, publish; ffq_read is load, reset;
\* the loop of iffq_clear (lines 489-491) runs while cons_clear # s
ConsRank ==
    CASE cons.pc \in {"lq_read_load", "llq_read_load"} -> 2
      [] cons.pc \in {"lq_read_publish", "llq_read_publish",
                      "ffq_read_clear"} -> 1
      [] cons.pc = "iffq_clear" -> U(cons.s - ffq.cons_clear)
      [] OTHER -> 0

\* the steps that continue a call of the producer
ProdContinue ==
    \/ lq_write_store
    \/ lq_write_publish
    \/ llq_write_store
    \/ llq_write_publish
    \/ ffq_write_store
    \/ iffq_insert_store
    \/ iffq_insert_publish_loop

\* the steps that continue a call of the consumer
ConsContinue ==
    \/ lq_read_load
    \/ lq_read_publish
    \/ llq_read_load
    \/ llq_read_publish
    \/ ffq_read_clear
    \/ iffq_clear_loop

\* the steps left after the first step of a call of the producer
ProdBound ==
    IF prod'.pc = "iffq_insert_publish" THEN ffq.prod_cache_write - 1 ELSE 2

\* the steps left after the first step of a call of the consumer
ConsBound ==
    IF cons'.pc = "iffq_clear"
    THEN U(iffq_clear_bound(ffq) - ffq.cons_clear) - 1
    ELSE 2

\* C18: non-blocking. A call in progress can always take its next step,
\* whatever state the other thread is in; every step of a call in
\* progress lowers the number of steps the call has left, and no step of
\* the other thread changes that number; the first step of a call leaves
\* at most two more steps for a single-item operation, the staged count
\* minus one for iffq_insert_publish and the distance from cons_clear to
\* the target minus one for iffq_clear; every other operation returns in
\* its first step.
C18_NonBlocking ==
    /\ [](/\ ProdRank > 0 => ENABLED ProdContinue
          /\ ConsRank > 0 => ENABLED ConsContinue)
    /\ [][/\ ProdOps => /\ ConsRank' = ConsRank
                        /\ IF ProdRank > 0 THEN ProdRank' < ProdRank
                           ELSE ProdRank' <= ProdBound
          /\ ConsOps => /\ ProdRank' = ProdRank
                        /\ IF ConsRank > 0 THEN ConsRank' < ConsRank
                           ELSE ConsRank' <= ConsBound]_vars

\* both loops are in progress at once, each with iterations made and
\* iterations left
C18_Witness ==
    /\ prod.pc = "iffq_insert_publish"
    /\ prod.i >= 1
    /\ ProdRank >= 1
    /\ cons.pc = "iffq_clear"
    /\ ConsRank >= 1
    /\ ffq.cons_clear # 0


\* ---------------------------------------------------------------------
\* C19
\* ---------------------------------------------------------------------

\* the queue of the behaviour is a struct Blq
IsBlq == harness.variant \in {"lq", "llq", "blq"}

\* struct Blq, lines 77-94; struct Iffq, lines 288-297:
\* the fields grouped "producer" and "consumer" in the declarations
ProducerOwned ==
    IF IsBlq
    THEN <<blq.write_priv, blq.read_shadow, blq.write>>
    ELSE <<ffq.prod_write, ffq.prod_check, ffq.prod_cache_write,
           ffq.prod_cache>>

ConsumerOwned ==
    IF IsBlq
    THEN <<blq.read_priv, blq.write_shadow, blq.read>>
    ELSE <<ffq.cons_read, ffq.cons_clear>>

\* the fields written by the init functions only
ReadOnly ==
    IF IsBlq
    THEN <<blq.qlen, blq.qmask>>
    ELSE <<ffq.entry_mask, ffq.line_entries, ffq.line_mask>>

Slots == IF IsBlq THEN blq.q ELSE ffq.q

\* C19: single-writer ownership. No step of a producer operation changes
\* read_priv, write_shadow, read, cons_read or cons_clear; no step of a
\* consumer operation changes write_priv, read_shadow, write, prod_write,
\* prod_check, prod_cache_write or prod_cache; a consumer operation
\* changes a slot only in the sentinel variants and only to reset it to
\* 0; no operation changes qlen, qmask, entry_mask, line_entries or
\* line_mask.
C19_SingleWriter ==
    [][/\ ProdOps => ConsumerOwned' = ConsumerOwned
       /\ ConsOps => /\ ProducerOwned' = ProducerOwned
                     /\ \A i \in DOMAIN Slots :
                           Slots'[i] # Slots[i] => ~IsBlq /\ Slots'[i] = 0
       /\ ReadOnly' = ReadOnly]_vars

\* every cursor of a batch queue has been stored by its owner, and so
\* have slots
C19_Witness ==
    /\ harness.variant = "blq"
    /\ blq.write_priv # 0 /\ blq.read_shadow # 0 /\ blq.write # 0
    /\ blq.read_priv # 0 /\ blq.write_shadow # 0 /\ blq.read # 0
    /\ \E i \in DOMAIN blq.q : blq.q[i] # 0


\* ---------------------------------------------------------------------
\* Sequential round trip: the producer writes 1..n into a fresh queue,
\* then the consumer reads until a read reports empty
\* ---------------------------------------------------------------------

\* the largest number of values of a round trip
TripMaxN == 7

TripQLens == {Pow2(k) : k \in 1..BlqMaxLog}

InitTrip ==
    /\ \E v \in {"lq", "llq", "blq", "ffq", "iffq"}, n \in 0..TripMaxN :
          harness = [variant |-> v, n |-> n]
    /\ IF harness.variant \in {"lq", "llq", "blq"}
       THEN /\ \E qlen \in TripQLens :
                  blq = blq_init(BlqZeroed(qlen), qlen).blq
            /\ ffq = FfqNone
       ELSE /\ ffq \in IffqInits(harness.variant = "iffq")
            /\ blq = BlqNone
    /\ prod = ProdIdle
    /\ cons = ConsIdle
    /\ accepted = <<>>
    /\ received = <<>>
    /\ live = {}
    /\ held = {}

\* the last call of the producer reported full: lq_write, llq_write and
\* ffq_write return -1, iffq_insert returns -ENOBUFS, blq_wspace asked
\* for at least one slot returns 0
WriteRefused ==
    \/ prod.ret \in {<<-1>>, <<-ENOBUFS>>}
    \/ prod.pc = "blq_batch" /\ prod.ret = <<0>> /\ prod.needed >= 1

\* the producer calls again while values are left and none was refused
MoreToWrite ==
    /\ cons = ConsIdle
    /\ received = <<>>
    /\ Len(accepted) < harness.n
    /\ ~WriteRefused

\* the consumer calls again, after the producer's last call has returned,
\* until a read reports empty
MoreToRead ==
    /\ prod.pc = "idle"
    /\ Len(accepted) = harness.n
    /\ cons.ret # <<0>>

TripWrite ==
    \/ /\ harness.variant = "lq"
       /\ \/ MoreToWrite /\ lq_write_begin(Len(accepted) + 1)
          \/ lq_write_store
          \/ lq_write_publish
    \/ /\ harness.variant = "llq"
       /\ \/ MoreToWrite /\ llq_write_begin(Len(accepted) + 1)
          \/ llq_write_store
          \/ llq_write_publish
    \/ /\ harness.variant = "blq"
       /\ \/ MoreToWrite /\ \E n \in Needed \ {0} : blq_wspace(n)
          \/ Len(accepted) < harness.n /\ blq_write_local(Len(accepted) + 1)
          \/ blq_write_publish
    \/ /\ harness.variant = "ffq"
       /\ \/ MoreToWrite /\ ffq_write_begin(Len(accepted) + 1)
          \/ ffq_write_store
    \/ /\ harness.variant = "iffq"
       /\ \/ MoreToWrite /\ iffq_insert_begin(Len(accepted) + 1)
          \/ iffq_insert_store

TripRead ==
    \/ /\ harness.variant = "lq"
       /\ \/ MoreToRead /\ lq_read_begin
          \/ lq_read_load
          \/ lq_read_publish
    \/ /\ harness.variant = "llq"
       /\ \/ MoreToRead /\ llq_read_begin
          \/ llq_read_load
          \/ llq_read_publish
    \/ /\ harness.variant = "blq"
       /\ \/ MoreToRead /\ \E n \in Needed \ {0} : blq_rspace(n)
          \/ blq_read_local
          \/ blq_read_publish
    \/ /\ harness.variant = "ffq"
       /\ \/ MoreToRead /\ ffq_read_begin
          \/ ffq_read_clear
    \/ /\ harness.variant = "iffq"
       /\ MoreToRead /\ iffq_extract

NextTrip == TripWrite \/ TripRead

SpecTrip == InitTrip /\ [][NextTrip]_vars

\* ---------------------------------------------------------------------
\* C20
\* ---------------------------------------------------------------------

\* the number of values a fresh queue accepts while nothing is read
TripCapacity ==
    CASE harness.variant = "lq" -> blq.qlen - 1
      [] harness.variant \in {"llq", "blq"} -> LineCapacity(blq.qlen)
      [] harness.variant = "ffq" -> ffq.entry_mask + 1
      [] harness.variant = "iffq" -> IffqCapacity

\* the usable capacity with capacity - 1 for every index-based variant
TripIndexCapacity ==
    CASE harness.variant \in {"lq", "llq", "blq"} -> blq.qlen - 1
      [] harness.variant = "ffq" -> ffq.entry_mask + 1
      [] harness.variant = "iffq" -> IffqCapacity

\* no write is refused, the values read so far are the first values
\* written, and a read reports empty only after 1..n have been read
RoundTrip ==
    /\ ~WriteRefused
    /\ accepted = [i \in 1..Len(accepted) |-> i]
    /\ IsPrefix(received, accepted)
    /\ cons.ret = <<0>> => received = [i \in 1..harness.n |-> i]

\* the round trip for every n below capacity - 1 of the index-based
\* variants
C20_Original == harness.n < TripIndexCapacity => RoundTrip

\* C20: round trip. Writing 1..n sequentially into a fresh queue, with n
\* smaller than the number of values the variant accepts unread (qlen - 1
\* for lq, qlen - 8 for llq and the batch API, entries for ffq,
\* entries - 2 * line_entries for iffq), and then reading returns 1..n in
\* order, and only the read after the n-th reports empty.
C20_RoundTrip == harness.n < TripCapacity => RoundTrip

\* a local-mode queue of 16 slots has returned 1..7 and then reported
\* empty
C20_Witness ==
    /\ harness.variant = "llq"
    /\ harness.n = LineCapacity(blq.qlen) - 1
    /\ harness.n >= 3
    /\ received = [i \in 1..harness.n |-> i]
    /\ cons.pc = "idle"
    /\ cons.ret = <<0>>


\* ---------------------------------------------------------------------
\* The improved FastForward queue under both producer interfaces
\* ---------------------------------------------------------------------

\* the number of values the producer submits in SpecImproved
ImprovedMaxWrites == 7

\* the number of leading values of SpecImproved that may be 0
ImprovedZeroWindow == 1

InitImproved == InitIFFQ \/ InitBIFFQ

NextImproved ==
    \/ /\ harness.variant = "iffq"
       /\ \/ \E m \in Payloads(ImprovedMaxWrites, ImprovedZeroWindow) : iffq_insert_begin(m)
          \/ iffq_insert_store
    \/ /\ harness.variant = "biffq"
       /\ \/ \E n \in {1, ffq.entry_mask + 1} : iffq_wspace(n)
          \/ \E m \in Payloads(ImprovedMaxWrites, ImprovedZeroWindow) : iffq_insert_local(m)
          \/ iffq_insert_publish_begin
          \/ iffq_insert_publish_loop
    \/ IffqConsumerSteps

SpecImproved == InitImproved /\ [][NextImproved]_vars


\* ---------------------------------------------------------------------
\* C21
\* ---------------------------------------------------------------------

\* the position in the ring of the free-running cursor c
RingPos(c) == BitAnd(c, ffq.entry_mask)

\* the positions of the aligned group of line_entries slots holding p
LineOf(p) ==
    {j \in DOMAIN ffq.q : j \div ffq.line_entries = p \div ffq.line_entries}

\* the producer's call is at a store into the slot at prod_write:
\* line 419 of iffq_insert, line 455 of iffq_insert_publish
ProducerStores ==
    \/ prod.pc \in {"iffq_insert_store", "iffq_insert_publish"}
    \/ prod.pc = "iffq_batch" /\ ffq.prod_cache_write > 0

\* the positions iffq_clear has still to reset: up to the bound s of the
\* call in progress, or of a call that starts now (lines 487-491)
ToReset ==
    LET s == IF cons.pc = "iffq_clear" THEN cons.s ELSE iffq_clear_bound(ffq)
    IN {RingPos(U(ffq.cons_clear + k)) :
            k \in 0..(U(s - ffq.cons_clear) - 1)}

\* C21: false-sharing avoidance. Whenever the producer is at a store
\* into the slot at prod_write, in iffq_insert or in iffq_insert_publish,
\* the aligned line of line_entries slots holding that slot contains no
\* slot that an iffq_clear in progress, or one starting at that moment,
\* has still to reset.
C21_NoSharedLine ==
    ProducerStores => LineOf(RingPos(ffq.prod_write)) \cap ToReset = {}

\* the producer is at a store into the line seeded by iffq_init, after a
\* wrap of the ring, while an iffq_clear over lines of two or more slots
\* has slots left to reset
C21_Witness ==
    /\ ProducerStores
    /\ ffq.line_entries >= 2
    /\ ffq.prod_write >= ffq.entry_mask + 1
    /\ cons.pc = "iffq_clear"
    /\ ToReset # {}


\* ---------------------------------------------------------------------
\* C22
\* ---------------------------------------------------------------------

\* The statement with qlen - 8 taken literally: at most qlen - 8 items
\* are written and not yet released, and the producer is refused exactly
\* when it saw qlen - 8 of them.
C22_Original ==
    /\ Cardinality(live) <= blq.qlen - 8
    /\ (ToldFull /\ (harness.variant = "blq" => prod.needed >= 1))
           => prod.seen = blq.qlen - 8
    /\ ToldSpace => prod.seen # blq.qlen - 8

\* C22: reserved cache line in local and batch modes. One line of
\* SPSCQ_CACHELINE_SIZE / sizeof(uintptr_t) = 8 slots is kept free: in
\* every reachable state at most qlen - 8 items (none when qlen <= 8)
\* are written and not yet released by the consumer; llq_write returns
\* -1, and blq_wspace asked for at least one slot returns 0, exactly
\* when that many items were unreleased as it tested for space.
C22_ReservedLine ==
    /\ Cardinality(live) <= LineCapacity(blq.qlen)
    /\ (ToldFull /\ (harness.variant = "blq" => prod.needed >= 1))
           => prod.seen = LineCapacity(blq.qlen)
    /\ (ToldSpace /\ (harness.variant = "blq" => prod.needed >= 1))
           => prod.seen < LineCapacity(blq.qlen)

\* the batch producer is refused on a ring of 16 slots that has wrapped,
\* with 8 items unreleased
C22_Witness ==
    /\ harness.variant = "blq"
    /\ ToldFull
    /\ prod.needed >= 1
    /\ blq.qlen = 16
    /\ prod.seen = 8
    /\ Len(received) >= 8


\* ---------------------------------------------------------------------
\* C23
\* ---------------------------------------------------------------------

\* C23: occupancy bound of the improved FastForward queue. In every
\* reachable state prod_write - cons_read, the number of items written
\* and not extracted, is at most entries - 2 * line_entries, and
\* cons_read - cons_clear is at least line_entries.
C23_OccupancyBound ==
    /\ U(ffq.prod_write - ffq.cons_read) <= IffqCapacity
    /\ U(ffq.cons_read - ffq.cons_clear) >= ffq.line_entries

\* both bounds are attained at once on a ring with lines of two or more
\* slots, after iffq_clear has reset the line seeded by iffq_init
C23_Witness ==
    /\ ffq.line_entries >= 2
    /\ ffq.cons_clear > 0
    /\ U(ffq.prod_write - ffq.cons_read) = IffqCapacity
    /\ U(ffq.cons_read - ffq.cons_clear) = ffq.line_entries


\* ---------------------------------------------------------------------
\* C24
\* ---------------------------------------------------------------------

\* the ring positions of the items written and not yet extracted
UnreadPositions ==
    {RingPos(U(ffq.cons_read + k)) :
        k \in 0..(U(ffq.prod_write - ffq.cons_read) - 1)}

\* (cons_read - line_entries) rounded down to a line boundary
ClearTarget == BitAnd(U(ffq.cons_read - ffq.line_entries), ffq.line_mask)

\* a step of iffq_extract leaves every slot and every field but cons_read
\* alone; cons_read advances by one when the value returned is not 0 and
\* stays when it is 0
ExtractFrame ==
    /\ ffq' = [ffq EXCEPT !.cons_read = ffq'.cons_read]
    /\ ffq'.cons_read =
          IF cons'.ret # <<0>> THEN U(ffq.cons_read + 1) ELSE ffq.cons_read

\* a step of iffq_clear that finds cons_clear at the target changes
\* nothing; any other resets the slot at cons_clear, which holds no
\* unread item, advances cons_clear by one and returns exactly when
\* cons_clear reaches the target
ClearFrame ==
    IF ffq.cons_clear = ClearTarget
    THEN ffq' = ffq /\ cons'.pc = "idle"
    ELSE /\ ffq' = [ffq EXCEPT !.q[RingPos(ffq.cons_clear)] = 0,
                               !.cons_clear = U(ffq.cons_clear + 1)]
         /\ RingPos(ffq.cons_clear) \notin UnreadPositions
         /\ cons'.pc = "idle" <=> ffq'.cons_clear = ClearTarget

\* C24: deferred clearing. iffq_extract stores to no slot and changes
\* only cons_read, by one on success and not at all on empty; iffq_clear
\* resets exactly the slots from cons_clear up to, excluding,
\* (cons_read - line_entries) rounded down to a line, advances cons_clear
\* to that bound, leaves cons_read unchanged and never resets a slot
\* holding an unread value.
C24_DeferredClearing ==
    [][/\ iffq_extract => ExtractFrame
       /\ (iffq_clear_begin \/ iffq_clear_loop) => ClearFrame]_vars

\* a sweep over lines of two or more slots is under way after several
\* extractions, while unread items are in the ring
C24_Witness ==
    /\ cons.pc = "iffq_clear"
    /\ ffq.line_entries >= 2
    /\ ffq.cons_clear > 0
    /\ Len(received) >= 3
    /\ UnreadPositions # {}


\* ---------------------------------------------------------------------
\* C25
\* ---------------------------------------------------------------------

\* C25: the producer never overwrites live data. Whenever iffq_insert or
\* iffq_insert_publish is at a store into the slot at prod_write, that
\* slot holds the sentinel 0 and is none of the slots of the unread
\* items; a step changes prod_check only by adding line_entries to it,
\* and only when the slot at prod_check + line_entries holds 0.
C25_NoOverwrite ==
    /\ [](ProducerStores =>
             /\ ffq.q[SMAP(RingPos(ffq.prod_write))] = 0
             /\ RingPos(ffq.prod_write) \notin UnreadPositions)
    /\ [][ffq'.prod_check # ffq.prod_check =>
             /\ ffq'.prod_check = U(ffq.prod_check + ffq.line_entries)
             /\ ffq.q[SMAP(RingPos(U(ffq.prod_check + ffq.line_entries)))]
                   = 0]_vars

\* a flush of several values is at a store into a slot that held an
\* earlier value, extracted and reset since
C25_Witness ==
    /\ prod.pc = "iffq_insert_publish"
    /\ prod.i >= 1
    /\ ffq.prod_write >= ffq.entry_mask + 1 + ffq.line_entries
    /\ ffq.q[SMAP(RingPos(ffq.prod_write))] = 0


\* ---------------------------------------------------------------------
\* C26
\* ---------------------------------------------------------------------

\* the number of values the producer stages in SpecBatch
BatchMaxWrites == 10

\* the batch interface on rings the producer can fill but not wrap
NextBatch ==
    /\ harness.variant = "blq"
    /\ \/ \E n \in Needed : blq_wspace(n)
       \/ \E m \in Payloads(BatchMaxWrites, 0) : blq_write_local(m)
       \/ blq_write_publish
       \/ \E n \in Needed : blq_rspace(n)
       \/ blq_read_local
       \/ blq_read_publish

SpecBatch == InitBLQ /\ [][NextBatch]_vars

\* the slots the producer can write without reaching the reserved line
\* before unreleased items
ReallyWritable == LineCapacity(blq.qlen) - Cardinality(live)

\* lines 195-198 and 232: the space computed from the cached cursor
CachedWSpace ==
    BitAnd(U(blq.read_shadow - LineSlots - blq.write_priv), blq.qmask)

CachedRSpace == U(blq.write_shadow - blq.read_priv)

\* C26: on-demand refresh. blq_wspace(needed) leaves the queue unchanged
\* and returns the space computed from read_shadow when that space is
\* >= needed; otherwise it sets read_shadow to the shared read cursor
\* and returns the space recomputed from it, whatever it is. blq_rspace
\* does the same with write_shadow and the shared write cursor. The
\* count blq_wspace returns is at most the number of slots that can
\* really be written, the count blq_rspace returns at most the number
\* of published unread items.
C26_OnDemandRefresh ==
    [][/\ \A n \in Needed :
             blq_wspace(n) =>
                /\ IF CachedWSpace >= n
                   THEN blq' = blq /\ prod'.ret = <<CachedWSpace>>
                   ELSE /\ blq' = [blq EXCEPT !.read_shadow = blq.read]
                        /\ prod'.ret = <<CachedWSpace'>>
                /\ prod'.ret[1] <= ReallyWritable
       /\ \A n \in Needed :
             blq_rspace(n) =>
                /\ IF CachedRSpace >= n
                   THEN blq' = blq /\ cons'.ret = <<CachedRSpace>>
                   ELSE /\ blq' = [blq EXCEPT !.write_shadow = blq.write]
                        /\ cons'.ret = <<CachedRSpace'>>
                /\ cons'.ret[1] <= PublishedUnread]_vars

\* on a ring of 16 slots the producer has been told from a refreshed
\* read_shadow that fewer slots than it asked for are free, while the
\* consumer works through a count older than the shared write cursor
C26_Witness ==
    /\ harness.variant = "blq"
    /\ blq.qlen = 16
    /\ Len(received) >= 2
    /\ prod.pc = "blq_batch"
    /\ prod.ret # <<>>
    /\ prod.ret[1] < prod.needed
    /\ prod.ret[1] > 0
    /\ blq.read_shadow # 0
    /\ cons.pc = "blq_batch"
    /\ blq.write_shadow # blq.write


\* ---------------------------------------------------------------------
\* C27
\* ---------------------------------------------------------------------

\* line 160: the position llq_write compares with read_shadow
LlqCheck == BitAnd(U(blq.write + LineSlots), blq.qmask)

\* the first step of a call of llq_write, of llq_read
LlqWriteTests ==
    prod.pc = "idle" /\ (prod' # prod \/ blq'.read_shadow # blq.read_shadow)

LlqReadTests ==
    cons.pc = "idle" /\ (cons' # cons \/ blq'.write_shadow # blq.write_shadow)

\* C27: shadow refresh in local mode. llq_write changes read_shadow, to
\* the shared read cursor, only when (write + 8) & qmask equals the
\* cached read_shadow, and then returns -1 exactly when the refreshed
\* value still equals it; otherwise it changes nothing and goes on to
\* store. llq_read changes write_shadow, to the shared write cursor,
\* only when read_priv equals the cached write_shadow, and then returns
\* 0 exactly when the refreshed value still equals it; otherwise it
\* changes nothing and goes on to load the slot. No other step changes
\* a shadow.
C27_ShadowRefresh ==
    [][/\ LlqWriteTests =>
             IF LlqCheck = blq.read_shadow
             THEN /\ blq' = [blq EXCEPT !.read_shadow = blq.read]
                  /\ prod'.ret = <<-1>> <=> LlqCheck = blq.read
             ELSE blq' = blq /\ prod'.pc = "llq_write_store"
       /\ LlqReadTests =>
             IF blq.read_priv = blq.write_shadow
             THEN /\ blq' = [blq EXCEPT !.write_shadow = blq.write]
                  /\ cons'.pc = "idle" <=> blq.read_priv = blq.write
             ELSE blq' = blq /\ cons'.pc = "llq_read_load"
       /\ blq'.read_shadow # blq.read_shadow => LlqWriteTests
       /\ blq'.write_shadow # blq.write_shadow => LlqReadTests]_vars

\* on a ring of 16 slots llq_write has decided from a read_shadow that
\* is behind the shared read cursor, and the write_shadow is behind the
\* shared write cursor, both after an earlier refresh
C27_Witness ==
    /\ harness.variant = "llq"
    /\ blq.qlen = 16
    /\ prod.pc = "llq_write_store"
    /\ blq.read_shadow # 0
    /\ blq.read_shadow # blq.read
    /\ blq.write_shadow # 0
    /\ blq.write_shadow # blq.write


\* ---------------------------------------------------------------------
\* C28
\* ---------------------------------------------------------------------

\* the number of published items: the indices from read up to write
LqPublished == BitAnd(U(blq.write - blq.read), blq.qmask)

\* the indices of the published range [read, write)
LqRange == {BitAnd(U(blq.read + k), blq.qmask) : k \in 0..(LqPublished - 1)}

\* C28: store/publish ordering in the plain Lamport queue. The step that
\* stores the advanced write cursor finds the value already stored in
\* the slot at the old cursor, and the step that stores the advanced
\* read cursor comes after the load of the slot at the old cursor; in
\* every reachable state the k-th index before write, for k up to the
\* number of published items, holds the k-th last value accepted, the
\* consumer loads only the slot at read, which is inside the published
\* range, and the producer stores only into the slot at write, which is
\* outside it.
C28_StoreBeforePublish ==
    /\ [](/\ LqPublished <= Len(accepted)
          /\ \A k \in 1..LqPublished :
                k <= Len(accepted) =>
                   blq.q[SMAP(BitAnd(U(blq.write - k), blq.qmask))]
                      = accepted[Len(accepted) - k + 1]
          /\ cons.pc = "lq_read_load" =>
                cons.read = blq.read /\ cons.read \in LqRange
          /\ prod.pc = "lq_write_store" =>
                prod.write = blq.write /\ prod.write \notin LqRange)
    /\ [][/\ blq'.write # blq.write =>
                /\ blq.q[SMAP(blq.write)] = prod.m
                /\ blq'.q = blq.q
          /\ blq'.read # blq.read =>
                /\ cons.pc = "lq_read_publish"
                /\ cons.m = blq.q[SMAP(blq.read)]
                /\ cons'.ret = <<cons.m>>]_vars

\* on a full ring of 4 slots that has wrapped, the producer has stored a
\* value and not yet published it while the consumer has loaded a slot
\* and not yet released it
C28_Witness ==
    /\ harness.variant = "lq"
    /\ blq.qlen = 4
    /\ Len(accepted) >= 4
    /\ prod.pc = "lq_write_publish"
    /\ cons.pc = "lq_read_publish"
    /\ LqPublished >= 2


\* ---------------------------------------------------------------------
\* C29
\* ---------------------------------------------------------------------

\* the successor of a cursor: masked with qmask in lq and llq, modulo
\* the word size elsewhere
Forward(c) ==
    IF harness.variant \in {"lq", "llq"}
    THEN BitAnd(U(c + 1), blq.qmask)
    ELSE U(c + 1)

\* the cursor a successful write advances, a successful read advances
WriteCursor ==
    CASE harness.variant \in {"lq", "llq"} -> blq.write
      [] harness.variant = "blq" -> blq.write_priv
      [] harness.variant = "biffq" -> ffq.prod_cache_write
      [] OTHER -> ffq.prod_write

ReadCursor ==
    CASE harness.variant \in {"lq", "llq"} -> blq.read
      [] harness.variant = "blq" -> blq.read_priv
      [] OTHER -> ffq.cons_read

\* the values staged by iffq_insert_local and not yet stored by
\* iffq_insert_publish
Unflushed ==
    ffq.prod_cache_write -
       (IF prod.pc = "iffq_insert_publish" THEN prod.i ELSE 0)

\* C29: cursors only move forward. A step that accepts a value, or that
\* delivers one, advances its side's cursor by exactly one;
\* blq_write_publish moves write to write_priv, ahead by the number of
\* values staged since the last publish, blq_read_publish moves read to
\* read_priv, ahead by the number of values read since the last publish,
\* and iffq_insert_publish has advanced prod_write by one for every
\* staged value it has stored; cons_clear changes only by + 1 and
\* prod_check only by + line_entries; no step changes a cursor in any
\* other way. The cursors of lq and llq advance modulo qlen, all others
\* modulo the word size.
C29_CursorsForward ==
    /\ [](harness.variant = "biffq" =>
             U(ffq.prod_write + Unflushed)
                = U(ffq.line_entries + Len(accepted)))
    /\ [][/\ accepted' # accepted => WriteCursor' = Forward(WriteCursor)
          /\ received' # received => ReadCursor' = Forward(ReadCursor)
          /\ harness.variant \in {"lq", "llq"} =>
                /\ blq'.write \in {blq.write, Forward(blq.write)}
                /\ blq'.read \in {blq.read, Forward(blq.read)}
                /\ blq'.read_priv \in {blq.read_priv, Forward(blq.read_priv)}
                /\ blq'.write_priv = blq.write_priv
          /\ harness.variant = "blq" =>
                /\ blq'.write_priv \in {blq.write_priv, U(blq.write_priv + 1)}
                /\ blq'.read_priv \in {blq.read_priv, U(blq.read_priv + 1)}
                /\ blq'.write # blq.write =>
                      /\ blq'.write = blq.write_priv
                      /\ U(blq'.write - blq.write) = prod.staged
                /\ blq'.read # blq.read =>
                      /\ blq'.read = blq.read_priv
                      /\ U(blq'.read - blq.read) = Cardinality(held)
          /\ ~IsBlq =>
                /\ ffq'.prod_write \in {ffq.prod_write, U(ffq.prod_write + 1)}
                /\ ffq'.cons_read \in {ffq.cons_read, U(ffq.cons_read + 1)}
                /\ ffq'.cons_clear \in {ffq.cons_clear,
                                        U(ffq.cons_clear + 1)}
                /\ ffq'.prod_check \in
                      {ffq.prod_check,
                       U(ffq.prod_check + ffq.line_entries)}]_vars

\* the batch producer has published two or more values and the consumer
\* has read two or more of them without publishing
C29_Witness ==
    /\ harness.variant = "blq"
    /\ blq.write >= 2
    /\ blq.write = blq.write_priv
    /\ blq.read_priv >= blq.read + 2
    /\ prod.pc = "idle"


\* ---------------------------------------------------------------------
\* C30
\* ---------------------------------------------------------------------

IsIffq == harness.variant \in {"ffq", "iffq", "biffq"}

IsImproved == harness.variant \in {"iffq", "biffq"}

\* the number of slots of the ring
Entries == Cardinality(DOMAIN ffq.q)

\* the state iffq_init leaves (lines 367-390)
Seeded ==
    /\ ffq.cons_clear = 0
    /\ ffq.cons_read = ffq.line_entries
    /\ ffq.prod_write = ffq.line_entries
    /\ ffq.prod_check = ffq.line_entries
    /\ ffq.prod_cache_write = 0
    /\ ffq.entry_mask = Entries - 1
    /\ IsImproved =>
          \A i \in 0..(ffq.line_entries - 1) : ffq.q[SMAP(i)] = 1

\* the garbage value 1 has never been returned by iffq_extract
GarbageKept ==
    /\ \A k \in 1..Len(received) : received[k] # 1
    /\ cons.ret # <<1>>

\* The statement with the seeded line cleared as a whole: while
\* iffq_clear has not reset all line_entries slots of the seeded line,
\* prod_check is at most entries - line_entries.
C30_Original ==
    /\ IsIffq => Seeded
    /\ [](IsImproved =>
             /\ GarbageKept
             /\ ffq.cons_clear < ffq.line_entries =>
                   ffq.prod_check <= Entries - ffq.line_entries)

\* C30: initial state of the FastForward family. After a successful
\* iffq_init cons_clear = 0, cons_read = prod_write = prod_check =
\* line_entries, prod_cache_write = 0, entry_mask = entries - 1 and, in
\* improved mode, the slots [0, line_entries) hold the garbage value 1;
\* in every later state iffq_extract has never returned that garbage, and
\* prod_check is at most entries - line_entries as long as iffq_clear has
\* not reset slot 0, the first slot of the seeded line.
C30_SeededLine ==
    /\ IsIffq => Seeded
    /\ [](IsImproved =>
             /\ GarbageKept
             /\ ffq.cons_clear = 0 =>
                   ffq.prod_check <= Entries - ffq.line_entries)

\* the producer has filled the ring up to the seeded line of two slots,
\* which the consumer has not begun to clear, and has been refused
C30_Witness ==
    /\ IsImproved
    /\ ffq.line_entries >= 2
    /\ ffq.cons_clear = 0
    /\ ffq.prod_write = Entries - ffq.line_entries
    /\ ffq.prod_check = ffq.prod_write
    /\ Len(received) >= 1
    /\ prod.pc = "idle"
    /\ prod.ret = <<-ENOBUFS>>

(***************************************************************************)
(* C31.  Effect of iffq_insert_publish.  Flushed counts the iterations of  *)
(* the publish loop already run.  Between two publishes prod_cache[0..n)   *)
(* holds the n values staged since the last publish, in staging order, and *)
(* prod_write is the initial cursor plus the number of values flushed so   *)
(* far, so a whole publish advances it by exactly n; every iteration       *)
(* stores prod_cache[i] in the slot at prod_write and in no other slot,    *)
(* advances prod_write by one and leaves prod_cache, prod_check, the       *)
(* constant fields and the consumer's fields alone; the last iteration     *)
(* resets prod_cache_write; a publish with nothing staged leaves the whole *)
(* queue as it was.                                                        *)
(***************************************************************************)
Flushed == IF prod.pc = "iffq_insert_publish" THEN prod.i ELSE 0

\* a step of iffq_insert_publish: its entry or one more iteration
PublishStep ==
    \/ prod.pc = "iffq_batch" /\ prod'.pc # "iffq_batch"
    \/ prod.pc = "iffq_insert_publish" /\ prod' # prod

StagedInOrder ==
    LET n == ffq.prod_cache_write
    IN /\ n <= Len(accepted)
       /\ \A j \in 0..(n - 1) :
              CacheGet(ffq.prod_cache, j) = accepted[Len(accepted) - n + j + 1]

IterationEffect ==
    LET n == ffq.prod_cache_write
        i == Flushed
        slot == SMAP(BitAnd(ffq.prod_write, ffq.entry_mask))
        last == i + 1 = n
    IN IF n = 0
       THEN ffq' = ffq /\ prod'.pc = "idle"
       ELSE /\ i < n
            /\ ffq'.q[slot] = CacheGet(ffq.prod_cache, i)
            /\ \A k \in DOMAIN ffq.q : k # slot => ffq'.q[k] = ffq.q[k]
            /\ ffq'.prod_write = U(ffq.prod_write + 1)
            /\ ffq'.prod_cache_write = IF last THEN 0 ELSE n
            /\ ffq'.prod_cache = ffq.prod_cache
            /\ ffq'.prod_check = ffq.prod_check
            /\ ffq'.cons_read = ffq.cons_read
            /\ ffq'.cons_clear = ffq.cons_clear
            /\ ffq'.entry_mask = ffq.entry_mask
            /\ ffq'.line_entries = ffq.line_entries
            /\ ffq'.line_mask = ffq.line_mask
            /\ prod'.pc = (IF last THEN "idle" ELSE "iffq_insert_publish")
            /\ Flushed' = (IF last THEN 0 ELSE i + 1)

\* C31: iffq_insert_publish copies prod_cache[0..n) into the n consecutive
\* slots from prod_write in staging order, advances prod_write by n, resets
\* prod_cache_write and leaves prod_check and the consumer's fields alone;
\* with nothing staged it changes nothing.
C31_PublishEffect ==
    /\ [](harness.variant = "biffq" =>
              /\ StagedInOrder
              /\ ffq.prod_write =
                     U(ffq.line_entries + Len(accepted)
                           - ffq.prod_cache_write + Flushed))
    /\ [][PublishStep => IterationEffect]_vars

\* a publish of at least two staged values has stored all but the last
\* while the consumer has already extracted a value
C31_Witness ==
    /\ prod.pc = "iffq_insert_publish"
    /\ ffq.prod_cache_write >= 2
    /\ prod.i + 1 = ffq.prod_cache_write
    /\ Len(received) >= 1

(***************************************************************************)
(* C32.  The staging buffer.  The producer follows the batch protocol:     *)
(* iffq_wspace, at most the returned number of iffq_insert_local calls,    *)
(* iffq_insert_publish.  prod_cache has IFFQ_PROD_CACHE_ENTRIES entries    *)
(* whatever `entries` is, and iffq_wspace returns up to                    *)
(* entries - 2 * line_entries, so the scenario takes a ring larger than    *)
(* the buffer: StageCacheEntries entries of prod_cache for rings of up to  *)
(* 2^FfqMaxLog slots.  Nothing is modelled after an undefined store.       *)
(***************************************************************************)
StageCacheEntries == 3
StageMaxWrites == 5

InitStage ==
    /\ ffq \in IffqInits(TRUE)
    /\ blq = BlqNone
    /\ prod = ProdIdle
    /\ cons = ConsIdle
    /\ accepted = <<>>
    /\ received = <<>>
    /\ live = {}
    /\ held = {}
    /\ harness = [variant |-> "biffq", cache |-> StageCacheEntries]

NextStage ==
    /\ harness.variant = "biffq"
    /\ prod.pc # "out_of_bounds"
    /\ \/ \E n \in IffqNeeded : iffq_wspace(n)
       \/ \E m \in Payloads(StageMaxWrites, 0) : iffq_insert_local(m)
       \/ iffq_insert_publish_begin
       \/ iffq_insert_publish_loop
       \/ IffqConsumerSteps

SpecStage == InitStage /\ [][NextStage]_vars

\* C32: when the producer stages at most the number of slots iffq_wspace
\* last returned, prod_cache_write never exceeds the number of entries of
\* prod_cache and iffq_insert_local never stores outside prod_cache.
C32_StagingBound ==
    /\ ffq.prod_cache_write <= ProdCacheEntries
    /\ DOMAIN ffq.prod_cache \subseteq 0..(ProdCacheEntries - 1)
    /\ prod.pc # "out_of_bounds"

(***************************************************************************)
(* C33.  Progress of the improved FastForward queue.  The consumer is a    *)
(* loop that calls iffq_extract and then iffq_clear (cons.ret is <<>>      *)
(* after iffq_clear and the returned value after iffq_extract); the        *)
(* producer calls iffq_insert again and again, the first LiveZeroWindow    *)
(* times possibly with the value 0.  Both threads are scheduled with weak  *)
(* fairness.                                                               *)
(***************************************************************************)
LiveMaxWrites == 6
LiveZeroWindow == 1

ConsumerLoop ==
    \/ cons.ret = <<>> /\ iffq_extract
    \/ cons.ret # <<>> /\ iffq_clear_begin
    \/ iffq_clear_loop

ProducerRetry ==
    \/ \E m \in Payloads(LiveMaxWrites, LiveZeroWindow) : iffq_insert_begin(m)
    \/ iffq_insert_store

NextLive ==
    /\ harness.variant = "iffq"
    /\ (ProducerRetry \/ ConsumerLoop)

SpecLive ==
    /\ InitIFFQ
    /\ [][NextLive]_vars
    /\ WF_vars(ConsumerLoop)
    /\ WF_vars(ProducerRetry)

\* the consumer has extracted every written value and iffq_clear has then
\* run to its end
Drained ==
    /\ Len(received) = Len(accepted)
    /\ cons.pc = "idle"
    /\ ffq.cons_clear = iffq_clear_bound(ffq)

\* C33: once the consumer has extracted every written item and run
\* iffq_clear, the next iffq_insert succeeds; and a producer that was
\* refused and keeps retrying eventually succeeds, the consumer extracting
\* and clearing under weak fairness.
C33_Progress ==
    /\ [][(Drained /\ prod.pc = "idle" /\ prod' # prod)
              => prod'.pc = "iffq_insert_store"]_vars
    /\ (IffqFull ~> IffqSpace)

(***************************************************************************)
(* C34.  The first write on a fresh queue, for every qlen blq_init         *)
(* accepts.  As stated: lq_write and llq_write return 0 and blq_wspace(1)  *)
(* returns at least 1.  llq_write and blq_wspace keep a cache line of 8    *)
(* slots free, so with qlen <= 8 they refuse on the empty queue, and for   *)
(* ever.                                                                   *)
(***************************************************************************)
\* nothing was accepted yet and no cursor has moved
FreshQueue ==
    /\ IsBlq
    /\ accepted = <<>>
    /\ blq.write = 0 /\ blq.write_priv = 0 /\ blq.read = 0
    /\ blq.read_priv = 0 /\ blq.read_shadow = 0 /\ blq.write_shadow = 0

\* the write operation has just refused: lq_write or llq_write returned
\* -1, or blq_wspace asked for one slot returned 0
WriterRefused ==
    \/ harness.variant \in {"lq", "llq"} /\ prod.pc = "idle"
           /\ prod.ret = <<-1>>
    \/ harness.variant = "blq" /\ prod.pc = "blq_batch" /\ prod.needed = 1
           /\ prod.ret = <<0>>

\* the write operation has just gone past its test for space
WriterAdmitted ==
    \/ harness.variant = "lq" /\ prod.pc = "lq_write_store"
    \/ harness.variant = "llq" /\ prod.pc = "llq_write_store"
    \/ harness.variant = "blq" /\ prod.pc = "blq_batch" /\ prod.needed = 1
           /\ prod.ret # <<0>>

C34_Original == FreshQueue => ~WriterRefused

\* C34 as amended: on a fresh queue lq_write returns 0 for every accepted
\* qlen, and llq_write returns 0 and blq_wspace(1) returns at least 1 (it
\* returns qlen - 8) for every accepted qlen above 8; with qlen = 2, 4 or
\* 8 llq_write returns -1 and blq_wspace returns 0 in every state, so no
\* value is ever accepted.
C34_UsableAboveLine ==
    /\ (FreshQueue /\ (harness.variant = "lq" \/ blq.qlen > 8))
           => ~WriterRefused
    /\ (FreshQueue /\ WriterAdmitted /\ harness.variant = "blq")
           => prod.ret = <<blq.qlen - 8>>
    /\ (IsBlq /\ harness.variant # "lq" /\ blq.qlen <= 8)
           => (accepted = <<>> /\ ~WriterAdmitted)

\* blq_wspace(1) on a fresh queue of 16 slots has returned 8
C34_Witness ==
    /\ FreshQueue
    /\ harness.variant = "blq"
    /\ blq.qlen = 16
    /\ WriterAdmitted
    /\ prod.ret = <<8>>

(***************************************************************************)
(* C35.  One queue written through the batch API (blq_wspace,              *)
(* blq_write_local, blq_write_publish) and read with lq_read or llq_read   *)
(* (harness.reader).  The producer sends non-zero payloads only.           *)
(***************************************************************************)
MixMaxWrites == 17
\* the consumer stops after this many delivered values
MixMaxReads == 18

InitMix ==
    /\ \E qlen \in BlqQLens, reader \in {"lq", "llq"} :
          /\ blq = blq_init(BlqZeroed(qlen), qlen).blq
          /\ harness = [variant |-> "mix", reader |-> reader]
    /\ ffq = FfqNone
    /\ prod = ProdIdle
    /\ cons = ConsIdle
    /\ accepted = <<>>
    /\ received = <<>>
    /\ live = {}
    /\ held = {}

NextMix ==
    /\ harness.variant = "mix"
    /\ \/ \E n \in {1, blq.qlen} : blq_wspace(n)
       \/ \E m \in Payloads(MixMaxWrites, 0) : blq_write_local(m)
       \/ blq_write_publish
       \/ /\ harness.reader = "lq"
          /\ Len(received) < MixMaxReads
          /\ (lq_read_begin \/ lq_read_load \/ lq_read_publish)
       \/ /\ harness.reader = "llq"
          /\ Len(received) < MixMaxReads
          /\ (llq_read_begin \/ llq_read_load \/ llq_read_publish)

SpecMix == InitMix /\ [][NextMix]_vars

\* C35: a queue filled through the batch API and drained with lq_read or
\* llq_read delivers exactly the published values, each once and in FIFO
\* order, whatever the number of items.
C35_MixedFifo ==
    /\ Len(received) <= Len(accepted) - prod.staged
    /\ IsPrefix(received, accepted)

(***************************************************************************)
(* C36.  Overflow of the free-running cursors.  The queues start in a      *)
(* state reached after many values went through them, drained, with the    *)
(* cursors a few steps from the largest value of the word.  Batch Lamport  *)
(* queue: WrapAge values were written, read and released and both shadows  *)
(* refreshed, so the six cursors are WrapAge and every slot holds an old   *)
(* value (written 1; payloads are larger).  Improved FastForward queue:    *)
(* a whole number of turns of the ring was inserted, extracted and         *)
(* cleared, which leaves the state of iffq_init with the four cursors      *)
(* advanced by that number and old values in the first line.               *)
(***************************************************************************)
\* the batch cursors start WrapLead short of the overflow
WrapLead == 3
WrapMaxWrites == 6

WrapAge == UIntMod - WrapLead

\* the rings the batch writer can write to: qlen above one line of slots
WrapQLens == {qlen \in BlqQLens : qlen > LineSlots}

BlqAged(qlen) ==
    [blq_init(BlqZeroed(qlen), qlen).blq EXCEPT
        !.write = WrapAge, !.write_priv = WrapAge, !.read_shadow = WrapAge,
        !.read = WrapAge, !.read_priv = WrapAge, !.write_shadow = WrapAge,
        !.q = [i \in 0..(qlen - 1) |-> 1]]

IffqAged(f) ==
    LET turns == UIntMod - (f.entry_mask + 1)
    IN [f EXCEPT !.prod_write = U(@ + turns), !.prod_check = U(@ + turns),
                 !.cons_read = U(@ + turns), !.cons_clear = U(@ + turns)]

InitWrap ==
    /\ \/ /\ \E qlen \in WrapQLens : blq = BlqAged(qlen)
          /\ ffq = FfqNone
          /\ harness = Harness("blq")
       \/ /\ \E f \in IffqInits(TRUE) : ffq = IffqAged(f)
          /\ blq = BlqNone
          /\ harness \in {Harness("iffq"), Harness("biffq")}
    /\ prod = ProdIdle
    /\ cons = ConsIdle
    /\ accepted = <<>>
    /\ received = <<>>
    /\ live = {}
    /\ held = {}

NextWrap ==
    \/ /\ harness.variant = "blq"
       /\ \/ \E n \in {1, blq.qlen} : blq_wspace(n)
          \/ \E m \in Payloads(WrapMaxWrites, 0) : blq_write_local(m)
          \/ blq_write_publish
          \/ \E n \in {1, blq.qlen} : blq_rspace(n)
          \/ blq_read_local
          \/ blq_read_publish
    \/ /\ harness.variant = "iffq"
       /\ \/ \E m \in Payloads(WrapMaxWrites, 0) : iffq_insert_begin(m)
          \/ iffq_insert_store
    \/ /\ harness.variant = "biffq"
       /\ \/ \E n \in {1, ffq.entry_mask + 1} : iffq_wspace(n)
          \/ \E m \in Payloads(WrapMaxWrites, 0) : iffq_insert_local(m)
          \/ iffq_insert_publish_begin
          \/ iffq_insert_publish_loop
    \/ /\ harness.variant \in {"iffq", "biffq"}
       /\ IffqConsumerSteps

SpecWrap == InitWrap /\ [][NextWrap]_vars

\* values written to the ring of the improved queue so far
IffqWritten == Len(accepted) - ffq.prod_cache_write + Flushed

\* no loss, batch Lamport queue: the distance of the private cursors is
\* the number of values written and not read, the distance from read_priv
\* to the shared write cursor the number published and not read, and the
\* slots from read_priv on hold exactly those values in order
BlqNoLoss ==
    /\ U(blq.write_priv - blq.read_priv) = Len(accepted) - Len(received)
    /\ U(blq.write - blq.read_priv) = PublishedUnread
    /\ \A i \in 0..(Len(accepted) - Len(received) - 1) :
          blq.q[SMAP(BitAnd(U(blq.read_priv + i), blq.qmask))] =
              accepted[Len(received) + 1 + i]

\* results, batch Lamport queue: blq_wspace never returns more than the
\* slots really free outside the reserved line and returns exactly that
\* number when it is less than what was asked; blq_rspace never returns
\* more than the values published and not read
BlqResults ==
    /\ (prod.pc = "blq_batch" /\ prod.ret # <<>>) =>
          /\ prod.ret[1] <= LineCapacity(blq.qlen) - prod.seen
          /\ prod.ret[1] < prod.needed =>
                 prod.ret[1] = LineCapacity(blq.qlen) - prod.seen
    /\ (cons.pc = "blq_batch" /\ held = {} /\ cons.ret = <<cons.left>>) =>
          cons.left <= PublishedUnread

\* no loss, improved queue: likewise with cons_read and prod_write, and
\* the slots that are not 0 are exactly those from cons_clear up to
\* prod_write
IffqNoLoss ==
    /\ U(ffq.prod_write - ffq.cons_read) = IffqWritten - Len(received)
    /\ \A i \in 0..(IffqWritten - Len(received) - 1) :
          ffq.q[SMAP(RingPos(U(ffq.cons_read + i)))] =
              accepted[Len(received) + 1 + i]
    /\ {k \in DOMAIN ffq.q : ffq.q[k] # 0} =
          {SMAP(RingPos(U(ffq.cons_clear + i))) :
              i \in 0..(U(ffq.prod_write - ffq.cons_clear) - 1)}

\* results, improved queue: iffq_insert is refused only with all slots
\* but one line holding a value, and passes only below the capacity; the
\* slots iffq_wspace granted are empty; iffq_clear stays at least one
\* line and less than two lines behind cons_read once it has run
IffqResults ==
    /\ IffqFull => prod.occupied >= ffq.entry_mask + 1 - ffq.line_entries
    /\ IffqSpace => prod.pending < IffqCapacity
    /\ prod.pc = "iffq_batch" =>
          \A i \in 0..(prod.left - 1) :
              ffq.q[SMAP(RingPos(U(ffq.prod_write + ffq.prod_cache_write
                                       + i)))] = 0
    /\ C23_OccupancyBound
    /\ (cons.pc = "idle" /\ cons.ret = <<>> /\ received # <<>>) =>
          ffq.cons_clear = iffq_clear_bound(ffq)

\* C36: with a word size that is a multiple of the ring size, the batch
\* Lamport operations and the operations of the improved FastForward queue
\* give the same results and lose, duplicate or reorder nothing when the
\* cursors overflow.
C36_WrapHarmless ==
    /\ IsPrefix(received, accepted)
    /\ harness.variant = "blq" => (BlqNoLoss /\ BlqResults)
    /\ harness.variant \in {"iffq", "biffq"} => (IffqNoLoss /\ IffqResults)

\* the producer's cursor has overflowed, the consumer's has not, and the
\* consumer is reading values written on both sides of the overflow
C36_Witness ==
    /\ harness.variant = "blq"
    /\ blq.write < WrapLead
    /\ blq.read_priv >= WrapAge
    /\ cons.pc = "blq_batch"
    /\ cons.left >= 2
    /\ U(blq.read_priv + cons.left) < WrapLead
    /\ Len(received) >= 1

(***************************************************************************)
(* C37.  What a successful init leaves, on memory of any content           *)
(* (SpecInit).  As stated: after blq_init returns 0 the six cursors are    *)
(* equal, and after iffq_init returns 0 every slot outside the seeded line *)
(* (every slot, in basic mode) holds the sentinel 0.                       *)
(***************************************************************************)
\* the slots iffq_init seeds: [0, line_entries) in improved mode
SeededSlots ==
    IF harness.args.improved THEN 0..(ffq.line_entries - 1) ELSE {}

\* C37: a successful init yields an empty queue whatever the memory held:
\* blq_init leaves the six cursors equal, iffq_init leaves the sentinel in
\* every slot outside the seeded line.
C37_InitEmpty ==
    /\ (Returned("blq_init") /\ harness.ret = 0) =>
          /\ blq.write_priv = blq.write
          /\ blq.read_shadow = blq.write
          /\ blq.read_priv = blq.write
          /\ blq.write_shadow = blq.write
          /\ blq.read = blq.write
    /\ (Returned("iffq_init") /\ harness.ret = 0) =>
          \A k \in DOMAIN ffq.q : k \notin SeededSlots => ffq.q[k] = 0

(***************************************************************************)
(* C38.  The diagnostic dumps.  blq_dump calls blq_wspace(blq, qlen) and   *)
(* blq_rspace(blq, qlen) for the two counts it prints (lines 265-266);     *)
(* iffq_dump only loads the four cursors.  Either may be called between    *)
(* any two steps of the producer and of the consumer; harness.dumps counts *)
(* the calls.                                                              *)
(***************************************************************************)
DumpMaxWrites == 6
DumpMaxCalls == 2

\* lines 262-273: the two reserve calls made for printing, each storing
\* the shared cursor to the shadow when the cached count is below qlen
blq_dump ==
    /\ harness.dumps < DumpMaxCalls
    /\ LET w == IF blq_wspace_space(blq) >= blq.qlen THEN blq
                ELSE [blq EXCEPT !.read_shadow = blq.read]
           r == IF blq_rspace_space(w) >= blq.qlen THEN w
                ELSE [w EXCEPT !.write_shadow = w.write]
       IN blq' = r
    /\ harness' = [harness EXCEPT !.dumps = @ + 1]
    /\ UNCHANGED <<ffq, prod, cons, accepted, received, live, held>>

\* lines 395-400: loads only
iffq_dump ==
    /\ harness.dumps < DumpMaxCalls
    /\ harness' = [harness EXCEPT !.dumps = @ + 1]
    /\ UNCHANGED <<blq, ffq, prod, cons, accepted, received, live, held>>

InitDump ==
    /\ \/ /\ \E qlen \in BlqQLens : blq = blq_init(BlqZeroed(qlen), qlen).blq
          /\ ffq = FfqNone
          /\ harness = [variant |-> "blq", dumps |-> 0]
       \/ /\ ffq \in IffqInits(TRUE)
          /\ blq = BlqNone
          /\ harness = [variant |-> "iffq", dumps |-> 0]
    /\ prod = ProdIdle
    /\ cons = ConsIdle
    /\ accepted = <<>>
    /\ received = <<>>
    /\ live = {}
    /\ held = {}

NextDump ==
    \/ /\ harness.variant = "blq"
       /\ \/ \E n \in {1, blq.qlen} : blq_wspace(n)
          \/ \E m \in Payloads(DumpMaxWrites, 0) : blq_write_local(m)
          \/ blq_write_publish
          \/ \E n \in {1, blq.qlen} : blq_rspace(n)
          \/ blq_read_local
          \/ blq_read_publish
          \/ blq_dump
    \/ /\ harness.variant = "iffq"
       /\ \/ \E m \in Payloads(DumpMaxWrites, 0) : iffq_insert_begin(m)
          \/ iffq_insert_store
          \/ IffqConsumerSteps
          \/ iffq_dump

SpecDump == InitDump /\ [][NextDump]_vars

\* C38: blq_dump and iffq_dump leave every field of the queue (cursors,
\* shadow copies, slots) as it was.
C38_DumpReadOnly ==
    [][harness'.dumps # harness.dumps => (blq' = blq /\ ffq' = ffq)]_vars

(***************************************************************************)
(* Results_Collector (hh_stats.hpp).  The state of the collector is kept   *)
(* in harness.heavy_hitters, a function from the flow keys inserted so far *)
(* to the byte count of the entry; the two address strings of an entry are *)
(* set at its insertion and never read by update, and are left out.        *)
(* accepted is the history of the result tuples update was called with.    *)
(***************************************************************************)
CollectorMaxKey == 1
CollectorMaxLen == 2
CollectorMaxUpdates == 4

\* the result tuples: flow_key and acc_len (wf_tuple.hpp, lines 70 and 72)
ResultTuples == [flow_key : 0..CollectorMaxKey, acc_len : 0..CollectorMaxLen]

\* update that stores the newest byte count of a known flow
update_overwrite(result_tuple) ==
    /\ harness.variant = "collector"
    /\ Len(accepted) < CollectorMaxUpdates
    /\ LET hh == harness.heavy_hitters
           k == result_tuple.flow_key
       IN harness' =
             [harness EXCEPT !.heavy_hitters =
                 IF k \notin DOMAIN hh
                 THEN hh @@ (k :> result_tuple.acc_len)
                 ELSE [hh EXCEPT ![k] = result_tuple.acc_len]]
    /\ accepted' = Append(accepted, result_tuple)
    /\ UNCHANGED <<blq, ffq, prod, cons, received, live, held>>

\* hh_stats.hpp lines 102-117: insert the entry of a new flow, or raise
\* the byte count of a known flow when the tuple carries a higher one
update(result_tuple) ==
    /\ harness.variant = "collector"
    /\ Len(accepted) < CollectorMaxUpdates
    /\ LET hh == harness.heavy_hitters
           k == result_tuple.flow_key
       IN harness' =
             [harness EXCEPT !.heavy_hitters =
                 IF k \notin DOMAIN hh
                 THEN hh @@ (k :> result_tuple.acc_len)
                 ELSE IF hh[k] < result_tuple.acc_len
                      THEN [hh EXCEPT ![k] = result_tuple.acc_len]
                      ELSE hh]
    /\ accepted' = Append(accepted, result_tuple)
    /\ UNCHANGED <<blq, ffq, prod, cons, received, live, held>>

InitCollector ==
    /\ harness = [variant |-> "collector", heavy_hitters |-> <<>>]
    /\ blq = BlqNone
    /\ ffq = FfqNone
    /\ prod = ProdIdle
    /\ cons = ConsIdle
    /\ accepted = <<>>
    /\ received = <<>>
    /\ live = {}
    /\ held = {}

NextCollector == \E t \in ResultTuples : update(t)

SpecCollector == InitCollector /\ [][NextCollector]_vars

(***************************************************************************)
(* C39.  Per-flow peak.                                                    *)
(***************************************************************************)
\* the byte counts of the tuples of flow k seen so far
LensOf(k) ==
    {accepted[i].acc_len : i \in {j \in 1..Len(accepted) :
                                     accepted[j].flow_key = k}}

\* C39: after any sequence of update calls the collection holds one entry
\* for each distinct flow_key seen and no other, the byte count of a flow
\* is the maximum acc_len among the tuples of that flow, and it never
\* decreases.
C39_PerFlowPeak ==
    /\ [](LET hh == harness.heavy_hitters
          IN /\ DOMAIN hh = {accepted[i].flow_key : i \in 1..Len(accepted)}
             /\ \A k \in DOMAIN hh :
                   /\ hh[k] \in LensOf(k)
                   /\ \A l \in LensOf(k) : l <= hh[k])
    /\ [][\A k \in DOMAIN harness.heavy_hitters :
             /\ k \in DOMAIN harness'.heavy_hitters
             /\ harness'.heavy_hitters[k] >= harness.heavy_hitters[k]]_vars

\* two flows are in the collection and the last tuple of one of them
\* carried less than the peak stored for it
C39_Witness ==
    /\ harness.variant = "collector"
    /\ Cardinality(DOMAIN harness.heavy_hitters) = 2
    /\ Len(accepted) >= 3
    /\ LET last == accepted[Len(accepted)]
       IN /\ last.acc_len < harness.heavy_hitters[last.flow_key]
          /\ Cardinality(LensOf(last.flow_key)) >= 2

(***************************************************************************)
(* Sink replicas and the two aggregators (sink.hpp, metric.hpp,            *)
(* hh_stats.hpp).  harness.sinks gives for each replica its position in    *)
(* Sink_Functor::operator(), its processed_tuples and the vector size it   *)
(* read in emplace_back; harness.aggr gives for latency_aggr and           *)
(* result_aggr the vector of collectors (each named by the replica it was  *)
(* moved from), sink_zero_processed and the holder of the mutex m (0 when  *)
(* free).  The execution time added to sink_exec_time is not modelled.     *)
(***************************************************************************)
SinkReplicas == 3
SinkMaxTuples == 1

Replicas == 1..SinkReplicas
Aggregators == {"latency_aggr", "result_aggr"}

SinkStep(r, sk, ag) ==
    /\ harness' = [harness EXCEPT !.sinks[r] = sk, !.aggr = ag]
    /\ UNCHANGED <<blq, ffq, prod, cons, accepted, received, live, held>>

\* sink.hpp lines 83-101: a valid tuple is counted by its replica
process_tuple(r) ==
    /\ harness.variant = "sinks"
    /\ harness.sinks[r].pc = "running"
    /\ harness.sinks[r].processed_tuples < SinkMaxTuples
    /\ harness' = [harness EXCEPT !.sinks[r].processed_tuples = @ + 1]
    /\ UNCHANGED <<blq, ffq, prod, cons, accepted, received, live, held>>

\* sink.hpp lines 102-122: end of stream; the replica goes on to the empty
\* branch or adds its count to received_tuples and hands over its collectors
end_of_stream(r) ==
    /\ harness.variant = "sinks"
    /\ harness.sinks[r].pc = "running"
    /\ LET s == harness.sinks[r]
       IN IF s.processed_tuples = 0
          THEN harness' = [harness EXCEPT
                  !.sinks[r] = [s EXCEPT !.pc = "add_empty_sink",
                                         !.at = "latency_aggr"]]
          ELSE harness' = [harness EXCEPT
                  !.received_tuples = @ + s.processed_tuples,
                  !.sinks[r] = [s EXCEPT !.pc = "lock",
                                         !.at = "latency_aggr"]]
    /\ UNCHANGED <<blq, ffq, prod, cons, accepted, received, live, held>>

\* where a replica goes after its call on one aggregator
AfterCall(s) ==
    IF s.at = "latency_aggr"
    THEN [s EXCEPT !.at = "result_aggr",
                   !.pc = IF s.processed_tuples = 0
                          THEN "add_empty_sink" ELSE "lock"]
    ELSE [s EXCEPT !.pc = "terminated"]

\* metric.hpp lines 270-272, hh_stats.hpp lines 205-207: one atomic
\* fetch_add on sink_zero_processed
add_empty_sink(r) ==
    /\ harness.variant = "sinks"
    /\ harness.sinks[r].pc = "add_empty_sink"
    /\ LET s == harness.sinks[r]
       IN SinkStep(r, AfterCall(s),
                   [harness.aggr EXCEPT ![s.at].sink_zero_processed = @ + 1])

\* a lock that is taken whether or not the mutex is held
lock_nowait(r) ==
    /\ harness.variant = "sinks"
    /\ harness.sinks[r].pc = "lock"
    /\ LET s == harness.sinks[r]
       IN SinkStep(r, [s EXCEPT !.pc = "emplace_back"],
                   [harness.aggr EXCEPT ![s.at].m = r])

\* metric.hpp line 280, hh_stats.hpp line 215: std::unique_lock on m
lock(r) ==
    /\ harness.variant = "sinks"
    /\ harness.sinks[r].pc = "lock"
    /\ LET s == harness.sinks[r]
       IN /\ harness.aggr[s.at].m = 0
          /\ SinkStep(r, [s EXCEPT !.pc = "emplace_back"],
                      [harness.aggr EXCEPT ![s.at].m = r])

\* metric.hpp line 281, hh_stats.hpp line 216: emplace_back reads the size
\* of the vector ...
emplace_back(r) ==
    /\ harness.variant = "sinks"
    /\ harness.sinks[r].pc = "emplace_back"
    /\ LET s == harness.sinks[r]
       IN SinkStep(r, [s EXCEPT !.pc = "store",
                                !.size = Len(harness.aggr[s.at].aggregator)],
                   harness.aggr)

\* ... and stores the collector behind the elements it counted
emplace_back_store(r) ==
    /\ harness.variant = "sinks"
    /\ harness.sinks[r].pc = "store"
    /\ LET s == harness.sinks[r]
           v == harness.aggr[s.at].aggregator
       IN SinkStep(r, [s EXCEPT !.pc = "unlock"],
                   [harness.aggr EXCEPT ![s.at].aggregator =
                       SubSeq(v, 1, s.size) \o <<r>>])

\* the unique_lock goes out of scope at the end of add_collector /
\* add_res_collector
unlock(r) ==
    /\ harness.variant = "sinks"
    /\ harness.sinks[r].pc = "unlock"
    /\ LET s == harness.sinks[r]
       IN SinkStep(r, AfterCall(s), [harness.aggr EXCEPT ![s.at].m = 0])

InitSinks ==
    /\ harness =
          [variant |-> "sinks",
           received_tuples |-> 0,
           sinks |-> [r \in Replicas |->
                        [pc |-> "running", at |-> "latency_aggr",
                         processed_tuples |-> 0, size |-> 0]],
           aggr |-> [a \in Aggregators |->
                        [aggregator |-> <<>>, sink_zero_processed |-> 0,
                         m |-> 0]]]
    /\ blq = BlqNone
    /\ ffq = FfqNone
    /\ prod = ProdIdle
    /\ cons = ConsIdle
    /\ accepted = <<>>
    /\ received = <<>>
    /\ live = {}
    /\ held = {}

NextSinks ==
    \E r \in Replicas :
       \/ process_tuple(r)
       \/ end_of_stream(r)
       \/ add_empty_sink(r)
       \/ lock(r)
       \/ emplace_back(r)
       \/ emplace_back_store(r)
       \/ unlock(r)

SpecSinks == InitSinks /\ [][NextSinks]_vars

(***************************************************************************)
(* C40.  Sink termination accounting.                                      *)
(***************************************************************************)
AllTerminated == \A r \in Replicas : harness.sinks[r].pc = "terminated"

EmptySinks == {r \in Replicas : harness.sinks[r].processed_tuples = 0}

\* the number of times replica r appears in the vector v
Registered(v, r) == Cardinality({i \in 1..Len(v) : v[i] = r})

\* C40: when every sink replica has processed end-of-stream, in any
\* interleaving, each replica is registered exactly once in latency_aggr
\* and in result_aggr, as an empty sink when it processed no tuple and by
\* its collector otherwise: the collectors stored plus sink_zero_processed
\* equal sink_replicas, and no collector is lost or stored twice.
C40_SinkAccounting ==
    (harness.variant = "sinks" /\ AllTerminated) =>
       \A a \in Aggregators :
          LET g == harness.aggr[a]
          IN /\ Len(g.aggregator) + g.sink_zero_processed = SinkReplicas
             /\ g.sink_zero_processed = Cardinality(EmptySinks)
             /\ \A r \in Replicas :
                   Registered(g.aggregator, r)
                      = IF r \in EmptySinks THEN 0 ELSE 1
             /\ g.m = 0

\* all replicas are done, one of them was empty and two handed over their
\* collectors
C40_Witness ==
    /\ harness.variant = "sinks"
    /\ AllTerminated
    /\ Cardinality(EmptySinks) = 1
    /\ \A a \in Aggregators : Len(harness.aggr[a].aggregator) = 2

=============================================================================
